---- MODULE Spec2Model ----
(***************************************************************************)
(* Reconciliation engine of automail (src/App.tsx, first App component,    *)
(* and src/services/geminiService.ts): folder scan with fingerprint cache, *)
(* the matching pass, the recipient state machine, content generation,     *)
(* send and reset.                                                         *)
(*                                                                         *)
(* A text held in the state is a TLA+ string; Spell gives its characters,  *)
(* on which the string operations of the code work. A character is a one-  *)
(* character string, an accented letter is written as the base letter      *)
(* followed by an ASCII sign ("c," for c-cedilla, "o^" for o-circumflex).  *)
(***************************************************************************)
EXTENDS Integers, Sequences, FiniteSets, TLC

\* undefined / null: an absent text or match; absent generated content; an
\* absent time; no folder handle
None == "undefined"

NoContent == <<>>

NoTime == -1

NoHandle == "null"

-----------------------------------------------------------------------------
(* Characters *)

Lowers == <<"a", "b", "c", "d", "e", "f", "g", "h", "i", "j", "k", "l", "m", "n", "o", "p", "q", "r", "s", "t", "u", "v", "w", "x", "y", "z">>

Uppers == <<"A", "B", "C", "D", "E", "F", "G", "H", "I", "J", "K", "L", "M", "N", "O", "P", "Q", "R", "S", "T", "U", "V", "W", "X", "Y", "Z">>

Digits == <<"0", "1", "2", "3", "4", "5", "6", "7", "8", "9">>

\* precomposed accented letters: <<lower case, upper case, base letter, combining mark>>
Accented ==
  << <<"c,", "C,", "c", "U+0327">>,
     <<"o^", "O^", "o", "U+0302">>,
     <<"e'", "E'", "e", "U+0301">>,
     <<"a~", "A~", "a", "U+0303">> >>

Range(s) == {s[i] : i \in DOMAIN s}

IndexOf(s, c) == CHOOSE i \in DOMAIN s : s[i] = c

CombiningMarks == {Accented[i][4] : i \in DOMAIN Accented}

AccentedLower == {Accented[i][1] : i \in DOMAIN Accented}

AccentedUpper == {Accented[i][2] : i \in DOMAIN Accented}

UpperSet == Range(Uppers)

\* the character class [a-zA-Z0-9 ]
PlainChars == Range(Lowers) \cup Range(Uppers) \cup Range(Digits) \cup {" "}

\* String.prototype.toLowerCase on the letters that have a lower case
LowerTable ==
  [c \in UpperSet \cup AccentedUpper |->
     IF c \in UpperSet THEN Lowers[IndexOf(Uppers, c)]
     ELSE Accented[CHOOSE i \in DOMAIN Accented : Accented[i][2] = c][1]]

\* String.prototype.normalize("NFD") on the precomposed letters: base, then mark
DecomposeTable ==
  [c \in AccentedLower \cup AccentedUpper |->
     IF c \in AccentedLower
     THEN LET a == Accented[CHOOSE i \in DOMAIN Accented : Accented[i][1] = c]
          IN  <<a[3], a[4]>>
     ELSE LET a == Accented[CHOOSE i \in DOMAIN Accented : Accented[i][2] = c]
          IN  <<Uppers[IndexOf(Lowers, a[3])], a[4]>>]

LowerChar(c) == IF c \in UpperSet \cup AccentedUpper THEN LowerTable[c] ELSE c

DecomposeChar(c) ==
  IF c \in AccentedLower \cup AccentedUpper THEN DecomposeTable[c] ELSE <<c>>

RECURSIVE FlatMap(_, _)
FlatMap(Op(_), s) ==
  IF s = <<>> THEN <<>> ELSE Op(Head(s)) \o FlatMap(Op, Tail(s))

toLowerCase(text) == [i \in DOMAIN text |-> LowerChar(text[i])]

NFD(text) == FlatMap(DecomposeChar, text)

IsPlain(c) == c \in PlainChars

\* normalizeText whose last replace lacks the g flag: only the first
\* character outside the class is removed
normalizeText_FirstOnly(text) ==
  LET lowered  == toLowerCase(text)
      nfd      == NFD(lowered)
      unmarked == SelectSeq(nfd, LAMBDA c : c \notin CombiningMarks)
      odd      == {i \in DOMAIN unmarked : ~IsPlain(unmarked[i])}
  IN  IF odd = {} THEN unmarked
      ELSE LET k == CHOOSE i \in odd : \A j \in odd : i <= j
           IN  SubSeq(unmarked, 1, k - 1) \o SubSeq(unmarked, k + 1, Len(unmarked))

\* const normalizeText = (text) => text.toLowerCase().normalize("NFD")
\*     .replace(/[\u0300-\u036f]/g, "").replace(/[^a-zA-Z0-9 ]/g, "")
normalizeText(text) ==
  LET lowered  == toLowerCase(text)
      nfd      == NFD(lowered)
      unmarked == SelectSeq(nfd, LAMBDA c : c \notin CombiningMarks)
  IN  SelectSeq(unmarked, IsPlain)

RECURSIVE TrimStart(_)
TrimStart(s) == IF s # <<>> /\ Head(s) = " " THEN TrimStart(Tail(s)) ELSE s

RECURSIVE TrimEnd(_)
TrimEnd(s) ==
  IF s # <<>> /\ s[Len(s)] = " " THEN TrimEnd(SubSeq(s, 1, Len(s) - 1)) ELSE s

\* String.prototype.trim
trim(s) == TrimEnd(TrimStart(s))

\* String.prototype.includes
includes(hay, needle) ==
  \E i \in 0..(Len(hay) - Len(needle)) : SubSeq(hay, i + 1, i + Len(needle)) = needle

-----------------------------------------------------------------------------
(* Catalogues the inputs are drawn from *)

\* A text held in the state is a TLA+ string; Spell gives its characters, on
\* which the string operations of the code work.  Accented letters are
\* dropped from the string that names the text, not from its spelling.
Spell ==
  ("" :> <<>>)
  @@ ("Varonis" :> <<"V", "a", "r", "o", "n", "i", "s">>)
  @@ ("Chamados" :> <<"C", "h", "a", "m", "a", "d", "o", "s">>)
  @@ ("Chamados JFAL.pdf" :> <<"C","h","a","m","a","d","o","s"," ","J","F","A","L",".","p","d","f">>)
  @@ ("JFAL_Varonis.pdf" :> <<"J", "F", "A", "L", "_", "V", "a", "r", "o", "n", "i", "s", ".", "p", "d", "f">>)
  @@ ("JAMC_7490_2025.pdf" :> <<"J", "A", "M", "C", "_", "7", "4", "9", "0", "_", "2", "0", "2", "5", ".", "p", "d", "f">>)
  @@ ("JFAL" :> <<"J", "F", "A", "L">>)
  @@ ("Caixa Seguradora" :> <<"C", "a", "i", "x", "a", " ", "S", "e", "g", "u", "r", "a", "d", "o", "r", "a">>)
  @@ ("Justica Federal" :> <<"J", "u", "s", "t", "i", "c,", "a", " ", "F", "e", "d", "e", "r", "a", "l">>)
  @@ ("ti@jfal.br" :> <<"t", "i", "@", "j", "f", "a", "l", ".", "b", "r">>)
  @@ ("CAIXA" :> <<"C", "A", "I", "X", "A">>)
  @@ ("Caixa Economica Federal" :> <<"C", "a", "i", "x", "a", " ", "E", "c", "o", "n", "o^", "m", "i", "c", "a", " ", "F", "e", "d", "e", "r", "a", "l">>)
  @@ ("a@caixa.br, b@caixa.br" :> <<"a", "@", "c", "a", "i", "x", "a", ".", "b", "r", ",", " ", "b", "@", "c", "a", "i", "x", "a", ".", "b", "r">>)
  @@ ("a@caixa.br; b@caixa.br" :> <<"a", "@", "c", "a", "i", "x", "a", ".", "b", "r", ";", " ", "b", "@", "c", "a", "i", "x", "a", ".", "b", "r">>)
  @@ ("a@caixa.br; b@caixa.br; ti@jfal.br" :> <<"a", "@", "c", "a", "i", "x", "a", ".", "b", "r", ";", " ", "b", "@", "c", "a", "i", "x", "a", ".", "b", "r", ";", " ", "t", "i", "@", "j", "f", "a", "l", ".", "b", "r">>)
  @@ ("ti@jfal.br; a@caixa.br; b@caixa.br" :> <<"t", "i", "@", "j", "f", "a", "l", ".", "b", "r", ";", " ", "a", "@", "c", "a", "i", "x", "a", ".", "b", "r", ";", " ", "b", "@", "c", "a", "i", "x", "a", ".", "b", "r">>)
  @@ ("relatorio_JFAL_Varonis_2024.pdf" :> <<"r","e","l","a","t","o","r","i","o","_","J","F","A","L","_","V","a","r","o","n","i","s","_","2","0","2","4",".","p","d","f">>)
  @@ ("relatorio_JFBR_Varonis_2024.pdf" :> <<"r","e","l","a","t","o","r","i","o","_","J","F","B","R","_","V","a","r","o","n","i","s","_","2","0","2","4",".","p","d","f">>)
  @@ ("Justica Federal Varonis.pdf" :> <<"J","u","s","t","i","c,","a"," ","F","e","d","e","r","a","l"," ","V","a","r","o","n","i","s",".","p","d","f">>)
  @@ ("Justica Federal tickets.pdf" :> <<"J","u","s","t","i","c,","a"," ","F","e","d","e","r","a","l"," ","t","i","c","k","e","t","s",".","p","d","f">>)
  @@ ("jamc-7490.pdf" :> <<"j","a","m","c","-","7","4","9","0",".","p","d","f">>)
  @@ ("JAMC 2025.pdf" :> <<"J","A","M","C"," ","2","0","2","5",".","p","d","f">>)
  @@ ("7490_2025.pdf" :> <<"7","4","9","0","_","2","0","2","5",".","p","d","f">>)
  @@ ("2025 Contrato 7490 (JAMC).pdf" :> <<"2","0","2","5"," ","C","o","n","t","r","a","t","o"," ","7","4","9","0"," ","(","J","A","M","C",")",".","p","d","f">>)
  @@ ("Relatorio de Chamados" :> <<"R","e","l","a","t","o","r","i","o"," ","d","e"," ","C","h","a","m","a","d","o","s">>)
  @@ ("tickets" :> <<"t","i","c","k","e","t","s">>)
  @@ ("JFAL " :> <<"J","F","A","L"," ">>)
  @@ ("TI" :> <<"T","I">>)
  @@ ("Geral" :> <<"G","e","r","a","l">>)
  @@ ("JAMC" :> <<"J","A","M","C">>)

Texts == DOMAIN Spell

\* the text with the given characters
Text(chars) == CHOOSE t \in Texts : Spell[t] = chars

\* service labels (AVAILABLE_SERVICES)
Svc_Varonis == "Varonis"

Svc_Chamados == "Chamados"

\* file names a monitored folder may hold, in the order the folder lists them
FileCatalog == <<"JAMC_7490_2025.pdf", "JFAL_Varonis.pdf", "Chamados JFAL.pdf">>

\* what the operator may type into the registry form when adding an entry
ClientForms ==
  { [ sigla |-> "JFAL",  name |-> "Justica Federal", email |-> "ti@jfal.br",
      services |-> <<Svc_Varonis>> ],
    [ sigla |-> "CAIXA", name |-> "Caixa Economica Federal",
      email |-> "a@caixa.br, b@caixa.br", services |-> <<>> ] }

\* the service selections an edit may leave an entry with (toggleService)
ServiceChoices == { <<>>, <<Svc_Varonis>>, <<Svc_Varonis, Svc_Chamados>> }

\* the monitored folders the picker may return
Folders == {"relatorios"}

\* folders in different places of the disk, two of them under one name
Directories == {"2024/relatorios", "2025/relatorios", "2025/chamados"}

\* FileSystemDirectoryHandle.name: the last segment of the folder's path
NameOf(handle) ==
  CASE handle \in {"2024/relatorios", "2025/relatorios"} -> "relatorios"
    [] handle = "2025/chamados" -> "chamados"
    [] OTHER -> handle

\* what the monitored folder may hold when it is enumerated
FolderContents == SUBSET {FileCatalog[1], FileCatalog[2]}

\* the codes, names and service labels the registry may hold
Siglas == {f.sigla : f \in ClientForms}

Names == {f.name : f \in ClientForms}

ServiceLabels == {""} \cup UNION {Range(sv) : sv \in ServiceChoices}

\* the arguments findKeywordMatch is called with on its own: names, codes
\* (specific, padded, too short, the placeholder, the contract codes),
\* service labels and file names
ProbeNames == {"Justica Federal", "Caixa Economica Federal", "Caixa Seguradora"}

ProbeSiglas == {"JFAL", "JFAL ", "", "TI", "Geral", "CAIXA", "JAMC"}

ProbeServices == {"", "Varonis", "Chamados", "Relatorio de Chamados", "tickets"}

ProbeFiles ==
  { "relatorio_JFBR_Varonis_2024.pdf", "relatorio_JFAL_Varonis_2024.pdf",
    "Chamados JFAL.pdf", "Justica Federal Varonis.pdf", "Justica Federal tickets.pdf",
    "JAMC_7490_2025.pdf", "2025 Contrato 7490 (JAMC).pdf", "jamc-7490.pdf",
    "JAMC 2025.pdf", "7490_2025.pdf" }

\* a function evaluated once for all its arguments
Tabulate(f) == IF f = f THEN f ELSE f

\* normalizeText, computed once for each text of the catalogues
NormalizedCatalog == Tabulate([t \in Texts |-> normalizeText(Spell[t])])

Normalized(text) == NormalizedCatalog[text]

\* toLowerCase, computed once for each text of the catalogues
LowerCatalog == Tabulate([t \in Texts |-> toLowerCase(Spell[t])])

Lowered(text) == LowerCatalog[text]

-----------------------------------------------------------------------------
(* The match rule evaluator (geminiService.ts) *)

Str_caixa == <<"c", "a", "i", "x", "a">>

Str_federal == <<"f", "e", "d", "e", "r", "a", "l">>

Str_jamc == <<"j", "a", "m", "c">>

Str_7490 == <<"7", "4", "9", "0">>

Str_2025 == <<"2", "0", "2", "5">>

Str_geral == <<"g", "e", "r", "a", "l">>

Str_chamados == <<"c", "h", "a", "m", "a", "d", "o", "s">>

\* Array.prototype.find: the first element satisfying Test, or None
RECURSIVE find(_, _)
find(Test(_), s) ==
  IF s = <<>> THEN None
  ELSE IF Test(Head(s)) THEN Head(s) ELSE find(Test, Tail(s))

\* MatchesFile whose contract rule does not ask for the year
MatchesFile_NoYear(cleanName, cleanAgency, cleanService, normFileName) ==
  LET isCaixa           == includes(cleanName, Str_caixa) /\ includes(cleanName, Str_federal)
      isCaixaSigla      == cleanAgency = Str_caixa \/ cleanAgency = Str_jamc
      hasSpecificAgency == Len(cleanAgency) > 2 /\ cleanAgency # Str_geral
      isChamadosService == includes(cleanService, Str_chamados)
  IN  IF isCaixa \/ isCaixaSigla
      THEN /\ includes(normFileName, Str_jamc)
           /\ includes(normFileName, Str_7490)
      ELSE IF hasSpecificAgency
      THEN IF isChamadosService
           THEN includes(normFileName, cleanAgency) /\ includes(normFileName, Str_chamados)
           ELSE includes(normFileName, cleanAgency) /\ includes(normFileName, cleanService)
      ELSE IF isChamadosService
           THEN includes(normFileName, cleanName) /\ includes(normFileName, Str_chamados)
           ELSE includes(normFileName, cleanName) /\ includes(normFileName, cleanService)

\* the predicate findKeywordMatch hands to files.find
MatchesFile(cleanName, cleanAgency, cleanService, normFileName) ==
  LET isCaixa           == includes(cleanName, Str_caixa) /\ includes(cleanName, Str_federal)
      isCaixaSigla      == cleanAgency = Str_caixa \/ cleanAgency = Str_jamc
      hasSpecificAgency == Len(cleanAgency) > 2 /\ cleanAgency # Str_geral
      isChamadosService == includes(cleanService, Str_chamados)
  IN  IF isCaixa \/ isCaixaSigla
      THEN /\ includes(normFileName, Str_jamc)
           /\ includes(normFileName, Str_7490)
           /\ includes(normFileName, Str_2025)
      ELSE IF hasSpecificAgency
      THEN IF isChamadosService
           THEN includes(normFileName, cleanAgency) /\ includes(normFileName, Str_chamados)
           ELSE includes(normFileName, cleanAgency) /\ includes(normFileName, cleanService)
      ELSE IF isChamadosService
           THEN includes(normFileName, cleanName) /\ includes(normFileName, Str_chamados)
           ELSE includes(normFileName, cleanName) /\ includes(normFileName, cleanService)

\* IsCandidate that compares the normalized texts without trimming them
IsCandidate_Untrimmed(recipientName, agencyName, serviceName, fileName) ==
  MatchesFile(Normalized(recipientName), Normalized(agencyName), Normalized(serviceName),
              Normalized(fileName))

\* the predicate for one recipient, service and file, from the raw texts
IsCandidate(recipientName, agencyName, serviceName, fileName) ==
  LET cleanAgency  == trim(Normalized(agencyName))
      cleanName    == trim(Normalized(recipientName))
      cleanService == trim(Normalized(serviceName))
  IN  MatchesFile(cleanName, cleanAgency, cleanService, Normalized(fileName))

\* IsCandidate, computed once for each combination of the catalogues
CandidateCatalog ==
  Tabulate([q \in (Names \cup ProbeNames) \X (Siglas \cup ProbeSiglas)
                    \X (ServiceLabels \cup ProbeServices)
                    \X (Range(FileCatalog) \cup ProbeFiles) |->
              IsCandidate(q[1], q[2], q[3], q[4])])

\* findKeywordMatch(recipientName, agencyName, serviceName, files): string | null
findKeywordMatch(recipientName, agencyName, serviceName, fileNames) ==
  find(LAMBDA f : CandidateCatalog[<<recipientName, agencyName, serviceName, f>>],
       fileNames)

-----------------------------------------------------------------------------
(* Bounds of the model *)

\* registry entries ever created (fresh ids)
MaxIds == 1

\* the clock stops advancing here
MaxTime == 1

\* entries of the send log
MaxLog == 2

\* scanDirectory calls made in a behaviour
MaxScans == 2

\* reconciliation passes that may be suspended
MaxPasses == 1

\* content batches that may be awaiting
MaxBatches == 1

\* the last instant of the calendar the clock may reach
MaxInstant == 5

-----------------------------------------------------------------------------
(* State *)

VARIABLES
  clients,               \* useState<Client[]>: the registry
  recipients,            \* useState<Recipient[]>: runtime recipients
  sentHistory,           \* useState<SentLog[]>
  dirHandle,             \* useState<FileSystemDirectoryHandle | null>
  folderHistory,         \* useState<FileSystemDirectoryHandle[]>: the session history
  files,                 \* useState<FileEntry[]>: the published inventory (file names)
  isScanning,            \* useState(false)
  lastScanTime,          \* useState<Date | null>
  lastScanSignatureRef,  \* useRef<string>(''): fingerprint cache
  signatureFrom,         \* the folder whose scan wrote the cache; none once it is cleared
  now,                   \* environment: the clock (new Date())
  nextId,                \* ids handed out so far (Date.now() + random)
  scanCalls,             \* scanDirectory calls made so far
  scans,                 \* scanDirectory calls between start and completion
  passes,                \* processMatches calls suspended at an await
  batches,               \* generateContent calls awaiting Promise.all
  scanConfig,            \* useState<AutoScanConfig>
  lastAutoScanRef,       \* useRef<number>(0): when the last automatic scan started
  heartbeat,             \* the setInterval callback effect 6 installed, with what it captured
  autoLog,               \* the automatic scans started so far: instant and mode
  ev                     \* the operation the last step performed

vars == << clients, recipients, sentHistory, dirHandle, folderHistory, files,
           isScanning, lastScanTime, lastScanSignatureRef, signatureFrom, now,
           nextId, scanCalls,
           scans, passes, batches, scanConfig, lastAutoScanRef, heartbeat,
           autoLog, ev >>

\* Array.prototype.map
Map(Op(_), s) == [i \in DOMAIN s |-> Op(s[i])]

Remove(s, k) == SubSeq(s, 1, k - 1) \o SubSeq(s, k + 1, Len(s))

-----------------------------------------------------------------------------
(* Directory fingerprint (scanDirectory, "Cache Optimization") *)

\* the characters in UTF-16 code unit order, which Array.prototype.sort uses
CodeOrder ==
  <<" ", "(", ")", ",", "-", ".">> \o Digits \o <<";", "@">> \o Uppers \o <<"_">> \o Lowers
    \o <<"|", "A~", "C,", "E'", "O^", "a~", "c,", "e'", "o^">>

Code(c) == IndexOf(CodeOrder, c)

RECURSIVE LexLess(_, _)
LexLess(a, b) ==
  IF b = <<>> THEN FALSE
  ELSE IF a = <<>> THEN TRUE
  ELSE IF Head(a) = Head(b) THEN LexLess(Tail(a), Tail(b))
  ELSE Code(Head(a)) < Code(Head(b))

RECURSIVE Insert(_, _)
Insert(x, s) ==
  IF s = <<>> THEN <<x>>
  ELSE IF LexLess(x, Head(s)) THEN <<x>> \o s
  ELSE <<Head(s)>> \o Insert(x, Tail(s))

\* Array.prototype.sort() on strings, given by their characters
RECURSIVE sort(_)
sort(s) == IF s = <<>> THEN <<>> ELSE Insert(Head(s), sort(Tail(s)))

\* Array.prototype.join(sep)
RECURSIVE join(_, _)
join(s, sep) ==
  IF s = <<>> THEN <<>>
  ELSE IF Len(s) = 1 THEN Head(s)
  ELSE Head(s) \o sep \o join(Tail(s), sep)

\* Fingerprint that joins the names in the order of the enumeration
Fingerprint_Unsorted(names) == join(names, <<"|">>)

\* names.sort().join('|'), on the characters of the names
Fingerprint(names) == join(sort(names), <<"|">>)

\* newFiles.map(f => f.name).sort().join('|')
Signature(fileNames) == Fingerprint([i \in DOMAIN fileNames |-> Spell[fileNames[i]]])

\* handle.values(): the files a folder holds, in the file system's order
Listing(held) == SelectSeq(FileCatalog, LAMBDA f : f \in held)

-----------------------------------------------------------------------------
(* Content generation (generateEmailContent) *)

\* services sorted so that the "chamados" ones come last, order kept otherwise
sortedServices(services) ==
  LET isChamados(x) == includes(Lowered(x), Str_chamados)
  IN  SelectSeq(services, LAMBDA x : ~isChamados(x))
        \o SelectSeq(services, isChamados)

\* the subject, body and HTML body are texts built from fixed wording and the
\* arguments below; each is recorded by the arguments that determine it
Compose(recipientName, agencySigla, isCaixa, sorted) ==
  IF isCaixa
  THEN [ subject    |-> <<"Relatorio de chamados_JAMC_Contrato 7490/2025">>,
         body       |-> <<"body", "Caixa Economica Federal">>,
         bodyHtml   |-> <<"html", "Caixa Economica Federal">>,
         overrideTo |-> None,
         overrideCc |-> None ]
  ELSE [ subject    |-> <<agencySigla, "|", sorted>>,
         body       |-> <<"body", recipientName, sorted>>,
         bodyHtml   |-> <<"html", recipientName, sorted>>,
         overrideTo |-> None,
         overrideCc |-> None ]

\* const isCaixa = normName.includes('caixa') && normName.includes('federal')
IsCaixaName(normName) == includes(normName, Str_caixa) /\ includes(normName, Str_federal)

generateEmailContent(recipientName, agencySigla, fileName, services) ==
  Compose(recipientName, agencySigla, IsCaixaName(Normalized(recipientName)),
          sortedServices(services))

\* !r.emailBody: undefined or the empty string
IsEmpty(text) == text = None \/ text = NoContent \/ text = ""

\* Filter that takes every ready recipient, with a body or without
IsTarget_AnyReady(r) == r.status = "file_found" \/ r.status = "ready"

\* recipients.filter(r => r.status === 'file_found' || (r.status === 'ready' && !r.emailBody))
IsTarget(r) ==
  r.status = "file_found" \/ (r.status = "ready" /\ IsEmpty(r.emailBody))

\* updatedRecipients.findIndex(r => r.id === id), 0 when there is none
findIndex(rs, id) ==
  IF \E i \in DOMAIN rs : rs[i].id = id
  THEN CHOOSE i \in DOMAIN rs : rs[i].id = id /\ \A j \in 1..(i - 1) : rs[j].id # id
  ELSE 0

\* WithContent that leaves the status as it was
WithContent_StatusKept(r, content) ==
  [r EXCEPT !.emailSubject  = content.subject,
            !.emailBody     = content.body,
            !.emailBodyHtml = content.bodyHtml,
            !.overrideTo    = content.overrideTo,
            !.overrideCc    = content.overrideCc]

\* the entry with the returned content stored and the status ready
WithContent(r, content) ==
  [r EXCEPT !.emailSubject  = content.subject,
            !.emailBody     = content.body,
            !.emailBodyHtml = content.bodyHtml,
            !.overrideTo    = content.overrideTo,
            !.overrideCc    = content.overrideCc,
            !.status        = "ready"]

\* const primaryFile = recipient.matchedFiles?.[0]?.fileName || ''
PrimaryFile(target) ==
  IF Len(target.matchedFiles) > 0 THEN target.matchedFiles[1].fileName ELSE ""

\* one target's turn inside Promise.all: the entry at its index gets the content
Generated(r, target) ==
  WithContent(r, generateEmailContent(target.name, target.sigla, PrimaryFile(target),
                                      target.services))

\* the list generateContent publishes for the recipients it captured
GeneratedList(rs) ==
  [i \in DOMAIN rs |->
     IF \E j \in DOMAIN rs : IsTarget(rs[j]) /\ findIndex(rs, rs[j].id) = i
     THEN Generated(rs[i], rs[CHOOSE j \in DOMAIN rs :
                                 IsTarget(rs[j]) /\ findIndex(rs, rs[j].id) = i])
     ELSE rs[i]]

\* the targets of the batch
Targets(rs) == {rs[i].id : i \in {j \in DOMAIN rs : IsTarget(rs[j])}}

\* effect 8 on a new recipient list: a batch starts when there is a target;
\* updatedRecipients is its local copy and open the targets whose
\* generateEmailContent call has not returned
StartGenerate(rs, inFlight) ==
  IF \E i \in DOMAIN rs : IsTarget(rs[i])
  THEN Append(inFlight, [recipients |-> rs, result |-> GeneratedList(rs),
                         updatedRecipients |-> rs, open |-> Targets(rs)])
  ELSE inFlight

-----------------------------------------------------------------------------
(* Effect 3: map clients to runtime recipients *)

NewRecipient(client) ==
  [ id              |-> client.id,
    sigla           |-> client.sigla,
    name            |-> client.name,
    email           |-> client.email,
    services        |-> client.services,
    status          |-> "pending",
    matchedFiles    |-> <<>>,
    missingServices |-> <<>>,
    matchedTime     |-> NoTime,
    emailSubject    |-> NoContent,
    emailBody       |-> NoContent,
    emailBodyHtml   |-> NoContent,
    overrideTo      |-> None,
    overrideCc      |-> None ]

\* Rebuild that takes no entry over from the previous list
MapClients_Fresh(cs, prev) == [i \in DOMAIN cs |-> NewRecipient(cs[i])]

\* setRecipients(prev => clients.map(client => ...existing state or a fresh one))
MapClients(cs, prev) ==
  [i \in DOMAIN cs |->
     LET k == findIndex(prev, cs[i].id)
     IN  IF k = 0 THEN NewRecipient(cs[i])
         ELSE [prev[k] EXCEPT !.sigla    = cs[i].sigla,
                              !.name     = cs[i].name,
                              !.email    = cs[i].email,
                              !.services = cs[i].services]]

-----------------------------------------------------------------------------
(* Effect 7: the reconciliation pass (processMatches) *)

PseudoServiceFound == "Relatorio CAIXA (JAMC)"

PseudoServiceMissing == "Relatorio JAMC"

\* const isCaixa = r.sigla.toLowerCase().includes('caixa') || ...
isCaixa(sigla, name) ==
  \/ includes(Lowered(sigla), Str_caixa)
  \/ includes(Lowered(sigla), Str_jamc)
  \/ includes(Lowered(name), Str_caixa)

\* isCaixa, computed once for each code and name of the catalogues
CaixaCatalog ==
  Tabulate([q \in (Siglas \cup ProbeSiglas) \X (Names \cup ProbeNames) |->
              isCaixa(q[1], q[2])])

isCaixaRecipient(r) == CaixaCatalog[<<r.sigla, r.name>>]

\* fileObj.lastModified of a file of the catalogue
LastModified(fileName) == IndexOf(FileCatalog, fileName)

\* getFileTimestamp: the last-modified time, undefined when getFile() throws;
\* failing is the set of files for which it throws during this pass
getFileTimestamp(fileName, failing) ==
  IF fileName \in failing THEN NoTime ELSE LastModified(fileName)

\* the services the pass looks for: the pseudo-service (searched with the
\* empty service name) for CAIXA, the configured services otherwise
ServicesToCheck(r) == IF isCaixaRecipient(r) THEN <<"">> ELSE r.services

\* RecordMatch that counts a match without a timestamp as missing
RecordMatch_DropsUnknown(rest, service, match, caixa, failing) ==
  IF match # None /\ match \notin failing
  THEN [rest EXCEPT !.matchedFiles =
          << [ service   |-> IF caixa THEN PseudoServiceFound ELSE service,
               fileName  |-> match,
               timestamp |-> getFileTimestamp(match, failing) ] >> \o @]
  ELSE [rest EXCEPT !.missingServices =
          << IF caixa THEN PseudoServiceMissing ELSE service >> \o @]

\* the body of the loop over servicesToCheck: the match of the service is
\* recorded with its timestamp, a service without a match is recorded as missing
RecordMatch(rest, service, match, caixa, failing) ==
  IF match # None
  THEN [rest EXCEPT !.matchedFiles =
          << [ service   |-> IF caixa THEN PseudoServiceFound ELSE service,
               fileName  |-> match,
               timestamp |-> getFileTimestamp(match, failing) ] >> \o @]
  ELSE [rest EXCEPT !.missingServices =
          << IF caixa THEN PseudoServiceMissing ELSE service >> \o @]

RECURSIVE MatchLoop(_, _, _, _)
MatchLoop(r, services, fileNames, failing) ==
  IF services = <<>> THEN [matchedFiles |-> <<>>, missingServices |-> <<>>]
  ELSE RecordMatch(MatchLoop(r, Tail(services), fileNames, failing),
                   Head(services),
                   findKeywordMatch(r.name, r.sigla, Head(services), fileNames),
                   isCaixaRecipient(r), failing)

\* AllFound that only asks for no missing service
AllFound_NoneMissing(r, found) == Len(found.missingServices) = 0

\* const allFound = servicesConfigured && missingServices.length === 0 && matchedFiles.length > 0
AllFound(r, found) ==
  LET servicesConfigured == isCaixaRecipient(r) \/ Len(r.services) > 0
  IN  /\ servicesConfigured
      /\ Len(found.missingServices) = 0
      /\ Len(found.matchedFiles) > 0

\* NewStatus that takes every satisfied recipient to file_found
NewStatus_Regress(r, allFound) == IF allFound THEN "file_found" ELSE "pending"

\* "Determine Status"
NewStatus(r, allFound) ==
  IF allFound
  THEN IF r.status = "ready" THEN "ready" ELSE "file_found"
  ELSE "pending"

\* Differs comparing the lists by reference: a fresh array never equals the old one
Differs_ByReference(r, newStatus, found) == TRUE

\* "Deep Compare for changes" (JSON.stringify of both lists)
Differs(r, newStatus, found) ==
  \/ newStatus # r.status
  \/ r.matchedFiles # found.matchedFiles
  \/ r.missingServices # found.missingServices

\* "Update if anything changed": the recipient after the deep compare
Updated(r, found, allFound, newStatus, time) ==
  IF Differs(r, newStatus, found)
  THEN [ changed |-> TRUE,
         r |-> [r EXCEPT !.status          = newStatus,
                         !.matchedFiles    = found.matchedFiles,
                         !.missingServices = found.missingServices,
                         !.matchedTime     = IF allFound THEN time ELSE NoTime] ]
  ELSE [changed |-> FALSE, r |-> r]

\* the status the matches found give the recipient, and the update
Settle(r, found, allFound, time) ==
  Updated(r, found, allFound, NewStatus(r, allFound), time)

\* the body of the loop after "Skip if sent", given the matches found
ReconcileFound(r, found, time) == Settle(r, found, AllFound(r, found), time)

\* the body of the loop after "Skip if sent"
Reconcile(r, fileNames, failing, time) ==
  ReconcileFound(r, MatchLoop(r, ServicesToCheck(r), fileNames, failing), time)

\* ProcessOne without the "Skip if sent" test
ProcessOne_NoSkip(r, fileNames, failing, time) ==
  Reconcile(r, fileNames, failing, time)

\* one iteration of the loop over updatedRecipients
ProcessOne(r, fileNames, failing, time) ==
  IF r.status = "sent" THEN [changed |-> FALSE, r |-> r]
  ELSE Reconcile(r, fileNames, failing, time)

\* what the pass publishes: the updated list and the hasChanges flag
Outcome(each) ==
  [ updatedRecipients |-> [i \in DOMAIN each |-> each[i].r],
    hasChanges        |-> \E i \in DOMAIN each : each[i].changed ]

\* processMatches on the captured recipients and files
processMatches(rs, fileNames, failing, time) ==
  Outcome([i \in DOMAIN rs |-> ProcessOne(rs[i], fileNames, failing, time)])

\* the pass suspends (await getFileTimestamp) iff some recipient has a match
Suspends(rs, fileNames) ==
  \E i \in DOMAIN rs :
     /\ rs[i].status # "sent"
     /\ MatchLoop(rs[i], ServicesToCheck(rs[i]), fileNames, {}).matchedFiles # <<>>

-----------------------------------------------------------------------------
(* Registry edits (ClientManager.tsx) *)

\* email.split(/[,;]+/).map(e => e.trim()), empty parts dropped
RECURSIVE splitEmails(_, _)
splitEmails(text, current) ==
  LET done == IF trim(current) = <<>> THEN <<>> ELSE <<trim(current)>>
  IN  IF text = <<>> THEN done
      ELSE IF Head(text) \in {",", ";"} THEN done \o splitEmails(Tail(text), <<>>)
      ELSE splitEmails(Tail(text), Append(current, Head(text)))

\* Array.from(new Set(s)): first occurrences, in order
RECURSIVE unique(_)
unique(s) ==
  IF s = <<>> THEN <<>>
  ELSE LET init == unique(SubSeq(s, 1, Len(s) - 1))
       IN  IF s[Len(s)] \in Range(init) THEN init ELSE Append(init, s[Len(s)])

\* email.replace(/,/g, ';')
replaceCommas(text) == [i \in DOMAIN text |-> IF text[i] = "," THEN ";" ELSE text[i]]

\* c.sigla.toLowerCase().trim(): the merge key
SiglaKey(sigla) == trim(Lowered(sigla))

\* new Map(): a sequence of <<key, value>> in insertion order; Map.prototype.set
MapSet(m, key, value) ==
  IF \E i \in DOMAIN m : m[i][1] = key
  THEN [i \in DOMAIN m |-> IF m[i][1] = key THEN <<key, value>> ELSE m[i]]
  ELSE Append(m, <<key, value>>)

MapHas(m, key) == \E i \in DOMAIN m : m[i][1] = key

MapGet(m, key) == m[CHOOSE i \in DOMAIN m : m[i][1] = key][2]

RECURSIVE LoadCurrent(_, _)
LoadCurrent(currentList, m) ==
  IF currentList = <<>> THEN m
  ELSE LoadCurrent(Tail(currentList),
                   MapSet(m, SiglaKey(Head(currentList).sigla), Head(currentList)))

\* an existing entry merged with the incoming one: emails united, name
\* taken from the incoming entry when it has one, services united
Combine(existing, inc) ==
  [existing EXCEPT
     !.email    = Text(join(unique(splitEmails(Spell[existing.email], <<>>)
                                     \o splitEmails(Spell[inc.email], <<>>)),
                            <<";", " ">>)),
     !.name     = IF inc.name # "" THEN inc.name ELSE existing.name,
     !.services = unique(existing.services \o inc.services)]

\* the entry created for a code the registry does not hold yet
Fresh(inc, freshId) ==
  [ id       |-> freshId,
    sigla    |-> Text(trim(Spell[inc.sigla])),
    name     |-> Text(trim(Spell[inc.name])),
    email    |-> Text(trim(replaceCommas(Spell[inc.email]))),
    services |-> inc.services ]

\* Array.from(clientMap.values())
MapValues(m) == [i \in DOMAIN m |-> m[i][2]]

\* the incoming entry put into the map of the current entries under its key
MergeInto(m, key, inc, freshId) ==
  MapValues(MapSet(m, key, IF MapHas(m, key) THEN Combine(MapGet(m, key), inc)
                           ELSE Fresh(inc, freshId)))

\* mergeClients(currentList, [inc]) with the id a new entry would get
mergeClients(currentList, inc, freshId) ==
  MergeInto(LoadCurrent(currentList, <<>>), SiglaKey(inc.sigla), inc, freshId)

\* mergeClients(currentList, rows): the rows merged one after the other,
\* used being the ids handed out so far
RECURSIVE importClients(_, _, _)
importClients(currentList, rows, used) ==
  IF rows = <<>> THEN currentList
  ELSE importClients(mergeClients(currentList, Head(rows), used + 1), Tail(rows),
                     IF MapHas(LoadCurrent(currentList, <<>>), SiglaKey(Head(rows).sigla))
                     THEN used ELSE used + 1)

\* the ids importClients hands out
RECURSIVE importedIds(_, _, _)
importedIds(currentList, rows, used) ==
  IF rows = <<>> THEN used
  ELSE importedIds(mergeClients(currentList, Head(rows), used + 1), Tail(rows),
                   IF MapHas(LoadCurrent(currentList, <<>>), SiglaKey(Head(rows).sigla))
                   THEN used ELSE used + 1)

\* normalizeAndMergeClients, existing branch: emails and services united
MergeStored(existing, c) ==
  [existing EXCEPT
     !.email    = Text(join(unique(splitEmails(Spell[existing.email], <<>>)
                                     \o splitEmails(Spell[c.email], <<>>)),
                            <<";", " ">>)),
     !.services = unique(existing.services \o c.services)]

\* normalizeAndMergeClients, else branch: the entry with semicolons in its email
KeepStored(c) == [c EXCEPT !.email = Text(replaceCommas(Spell[c.email]))]

RECURSIVE NormalizeInto(_, _)
NormalizeInto(clientList, m) ==
  IF clientList = <<>> THEN m
  ELSE NormalizeInto(Tail(clientList),
                     MapSet(m, SiglaKey(Head(clientList).sigla),
                            IF MapHas(m, SiglaKey(Head(clientList).sigla))
                            THEN MergeStored(MapGet(m, SiglaKey(Head(clientList).sigla)),
                                             Head(clientList))
                            ELSE KeepStored(Head(clientList))))

\* normalizeAndMergeClients(clientList): entries of the same key merged
normalizeAndMergeClients(clientList) == MapValues(NormalizeInto(clientList, <<>>))

\* handleSave in edit mode: the entry with editingId takes the form's fields
editClient(currentList, editingId, form) ==
  [i \in DOMAIN currentList |->
     IF currentList[i].id = editingId
     THEN [currentList[i] EXCEPT !.sigla    = form.sigla,
                                 !.name     = form.name,
                                 !.email    = Text(replaceCommas(Spell[form.email])),
                                 !.services = form.services]
     ELSE currentList[i]]

\* clients.filter(c => c.id !== id)
deleteClient(currentList, id) == SelectSeq(currentList, LAMBDA c : c.id # id)

-----------------------------------------------------------------------------
(* Effect 6: the auto-scan heartbeat (checkAutoScan) *)

\* Time is counted in periods of the heartbeat (setInterval(checkAutoScan,
\* 10000)) from 1 October, 00:00:00, a month of 31 days followed by November;
\* the value 0 stands for new Date(0)
PeriodsPerMinute == 6

PeriodsPerHour == 360

PeriodsPerDay == 8640

DaysOfOctober == 31

\* the instants the clock visits: 2 October 08:01:00, then 2 November
\* 07:59:00, 08:02:00, 08:02:10, 08:03:10 and 08:07:00
Instants == << 11526, 279354, 279372, 279373, 279379, 279402 >>

\* Date.prototype.getTime of the instant with the given number; past the
\* listed instants the clock moves by one minute
Stamp(t) ==
  IF t < Len(Instants) THEN Instants[t + 1]
  ELSE Instants[Len(Instants)] + (t - Len(Instants) + 1) * PeriodsPerMinute

\* Date.prototype.getHours, getMinutes and getDate of a time value
getHours(stamp) == (stamp % PeriodsPerDay) \div PeriodsPerHour

getMinutes(stamp) == (stamp % PeriodsPerHour) \div PeriodsPerMinute

getDate(stamp) ==
  IF stamp \div PeriodsPerDay < DaysOfOctober
  THEN stamp \div PeriodsPerDay + 1
  ELSE stamp \div PeriodsPerDay - DaysOfOctober + 1

\* lastScanTime ? lastScanTime.getTime() : 0
TimeOf(scanTime) == IF scanTime = NoTime THEN 0 ELSE Stamp(scanTime)

\* useState<AutoScanConfig>({ mode: 'disabled', intervalMinutes: 30 })
DefaultInterval == 30

\* the intervals the settings offer, of which the model takes the two shortest
IntervalOptions == {5, 10}

Modes == {"disabled", "interval", "fixed"}

\* const targetHours = [8, 12, 16]
targetHours == {8, 12, 16}

\* "Window of 5 minutes"
WindowMinutes == 5

\* "Prevent rapid firing (at least 1 min between scans)": 60000 ms
MinSpacing == 6

\* no setInterval callback installed
NoTimer == [installed |-> FALSE]

\* Install that leaves the previous callback running when the effect returns early
Install_NoCleanup(previous, handle, config, scanTime, scanning) ==
  IF handle = NoHandle \/ config.mode = "disabled" THEN previous
  ELSE [ installed    |-> TRUE,
         dirHandle    |-> handle,
         scanConfig   |-> config,
         lastScanTime |-> scanTime,
         isScanning   |-> scanning ]

\* effect 6 on a change of dirHandle, scanConfig, lastScanTime or isScanning:
\* the previous callback is cleared, and a new one is installed unless there
\* is no folder or the mode is disabled; the callback holds what it captured
Install(previous, handle, config, scanTime, scanning) ==
  IF handle = NoHandle \/ config.mode = "disabled" THEN NoTimer
  ELSE [ installed    |-> TRUE,
         dirHandle    |-> handle,
         scanConfig   |-> config,
         lastScanTime |-> scanTime,
         isScanning   |-> scanning ]

\* TooSoon that never holds a scan back
TooSoon_Never(currentTimestamp, lastAutoScan) == FALSE

\* if (currentTimestamp - lastAutoScanRef.current < 60000) return
TooSoon(currentTimestamp, lastAutoScan) == currentTimestamp - lastAutoScan < MinSpacing

\* IntervalDue with a strict comparison
IntervalDue_Strict(config, currentTimestamp, lastRun) ==
  currentTimestamp - lastRun > config.intervalMinutes * PeriodsPerMinute

\* diffMinutes >= scanConfig.intervalMinutes
IntervalDue(config, currentTimestamp, lastRun) ==
  currentTimestamp - lastRun >= config.intervalMinutes * PeriodsPerMinute

\* targetHours.includes(hour) && minute >= 0 && minute < 5
InWindow(stamp) ==
  /\ getHours(stamp) \in targetHours
  /\ getMinutes(stamp) >= 0
  /\ getMinutes(stamp) < WindowMinutes

\* "Check if ran this hour today"
RanThisHour(currentTimestamp, lastRun) ==
  ~( getHours(lastRun) # getHours(currentTimestamp)
       \/ getDate(lastRun) # getDate(currentTimestamp) )

\* the fixed-mode branch of checkAutoScan
FixedDue(currentTimestamp, lastRun) ==
  InWindow(currentTimestamp) /\ ~RanThisHour(currentTimestamp, lastRun)

\* shouldScan, from the configuration and last-scan time the callback captured
shouldScan(config, currentTimestamp, lastRun) ==
  IF config.mode = "interval" THEN IntervalDue(config, currentTimestamp, lastRun)
  ELSE IF config.mode = "fixed" THEN FixedDue(currentTimestamp, lastRun)
  ELSE FALSE

\* checkAutoScan decides to call scanDirectory
Fires(timer, currentTimestamp, lastAutoScan) ==
  /\ ~timer.isScanning
  /\ ~TooSoon(currentTimestamp, lastAutoScan)
  /\ shouldScan(timer.scanConfig, currentTimestamp, TimeOf(timer.lastScanTime))

\* effect 6 after a step that leaves the scheduler's own state alone
SchedulerIdle ==
  /\ UNCHANGED << scanConfig, lastAutoScanRef, autoLog >>
  /\ heartbeat' = Install(heartbeat, dirHandle', scanConfig', lastScanTime', isScanning')

-----------------------------------------------------------------------------
(* Initial state: the component mounted with nothing in localStorage *)

Init ==
  /\ clients = <<>>
  /\ recipients = <<>>
  /\ sentHistory = <<>>
  /\ dirHandle = NoHandle
  /\ folderHistory = <<>>
  /\ files = <<>>
  /\ isScanning = FALSE
  /\ lastScanTime = NoTime
  /\ lastScanSignatureRef = <<>>
  /\ signatureFrom = NoHandle
  /\ now = 0
  /\ nextId = 0
  /\ scanCalls = 0
  /\ scans = <<>>
  /\ passes = <<>>
  /\ batches = <<>>
  /\ scanConfig = [mode |-> "disabled", intervalMinutes |-> DefaultInterval]
  /\ lastAutoScanRef = 0
  /\ heartbeat = NoTimer
  /\ autoLog = <<>>
  /\ ev = [op |-> "mount"]

\* setRecipients(rs) followed by effect 8, which runs on every new list;
\* inFlight is the batches still awaiting
Publish(rs, inFlight, limit) ==
  /\ recipients' = rs
  /\ batches' = StartGenerate(rs, inFlight)
  /\ Len(batches') <= limit

SetRecipients(rs, inFlight) == Publish(rs, inFlight, MaxBatches)

-----------------------------------------------------------------------------
(* Environment *)

\* the clock moves on to the next instant, up to limit
Elapse(limit) ==
  /\ now < limit
  /\ now' = now + 1
  /\ ev' = [op |-> "tick"]
  /\ UNCHANGED << clients, recipients, sentHistory, dirHandle, folderHistory, files, isScanning,
                  lastScanTime, lastScanSignatureRef, signatureFrom, nextId, scanCalls, scans, passes,
                  batches >>
  /\ SchedulerIdle

Tick == Elapse(MaxTime)

-----------------------------------------------------------------------------
(* Registry edits: setClients, then effects 3 and 8 *)

SetClients(cs) ==
  /\ clients' = cs
  /\ SetRecipients(MapClients(cs, recipients), batches)

\* handleSave, add mode, while at most limit ids were handed out
SaveNew(form, limit) ==
  /\ form.sigla # "" /\ form.name # "" /\ form.email # ""
  /\ nextId' = IF \E i \in DOMAIN clients : SiglaKey(clients[i].sigla) = SiglaKey(form.sigla)
                THEN nextId ELSE nextId + 1
  /\ nextId' <= limit
  /\ SetClients(mergeClients(clients,
                             [ sigla    |-> form.sigla,
                               name     |-> form.name,
                               email    |-> form.email,
                               services |-> form.services ],
                             nextId + 1))
  /\ ev' = [op |-> "addClient"]
  /\ UNCHANGED << sentHistory, dirHandle, folderHistory, files, isScanning, lastScanTime,
                  lastScanSignatureRef, signatureFrom, now, scanCalls, scans, passes >>
  /\ SchedulerIdle

AddClient(form) == SaveNew(form, MaxIds)

\* handleEdit, then handleSave in edit mode with the form as it was left
SaveEdit(i, form) ==
  /\ i \in DOMAIN clients
  /\ form.sigla # "" /\ form.name # "" /\ form.email # ""
  /\ SetClients(editClient(clients, clients[i].id, form))
  /\ ev' = [op |-> "editClient"]
  /\ UNCHANGED << sentHistory, dirHandle, folderHistory, files, isScanning, lastScanTime,
                  lastScanSignatureRef, signatureFrom, now, nextId, scanCalls, scans, passes >>
  /\ SchedulerIdle

\* handleEdit, toggleService, handleSave in edit mode
EditClient(i, services) ==
  /\ i \in DOMAIN clients
  /\ services # clients[i].services
  /\ SaveEdit(i, [ sigla    |-> clients[i].sigla,
                   name     |-> clients[i].name,
                   email    |-> clients[i].email,
                   services |-> services ])

\* handleDelete, confirmed
DeleteClient(i) ==
  /\ i \in DOMAIN clients
  /\ SetClients(deleteClient(clients, clients[i].id))
  /\ ev' = [op |-> "deleteClient"]
  /\ UNCHANGED << sentHistory, dirHandle, folderHistory, files, isScanning, lastScanTime,
                  lastScanSignatureRef, signatureFrom, now, nextId, scanCalls, scans, passes >>
  /\ SchedulerIdle

-----------------------------------------------------------------------------
(* Folder scanner *)

\* scanDirectory up to its first await: setIsScanning(true); switched tells
\* whether the call comes from a selection that changed the monitored folder,
\* limit is the number of calls explored
Scan(handle, switched, limit) ==
  /\ scanCalls < limit
  /\ scanCalls' = scanCalls + 1
  /\ isScanning' = TRUE
  /\ scans' = Append(scans, [handle |-> handle, switched |-> switched])

StartScan(handle) == Scan(handle, FALSE, MaxScans)

\* setFolderHistory(prev => ...): a folder whose name the history already
\* holds is not added
Remember(prev, handle) ==
  IF \E i \in DOMAIN prev : NameOf(prev[i]) = NameOf(handle)
  THEN prev
  ELSE Append(prev, handle)

\* "Reset cache when switching folders"
ResetCache ==
  /\ lastScanSignatureRef' = <<>>
  /\ signatureFrom' = NoHandle

\* handleSelectFolder with the picker returning handle
Select(handle, limit) ==
  /\ folderHistory' = Remember(folderHistory, handle)
  /\ ResetCache
  /\ dirHandle' = handle
  /\ Scan(handle, handle # dirHandle, limit)
  /\ ev' = [op |-> "selectFolder"]
  /\ UNCHANGED << clients, recipients, sentHistory, files, lastScanTime, now,
                  nextId, passes, batches >>
  /\ SchedulerIdle

\* handleSelectFolder: the picker returned a folder
SelectFolder(handle) == Select(handle, MaxScans)

\* handleHistorySelect(handle), handle being a button of the session history
HistorySelect(handle, limit) ==
  /\ handle \in Range(folderHistory)
  /\ IF NameOf(dirHandle) # NameOf(handle)
     THEN ResetCache
     ELSE UNCHANGED << lastScanSignatureRef, signatureFrom >>
  /\ dirHandle' = handle
  /\ Scan(handle, handle # dirHandle, limit)
  /\ ev' = [op |-> "historySelect"]
  /\ UNCHANGED << clients, recipients, sentHistory, folderHistory, files, lastScanTime,
                  now, nextId, passes, batches >>
  /\ SchedulerIdle

\* the refresh button: dirHandle && scanDirectory(dirHandle), disabled while scanning
Refresh ==
  /\ dirHandle # NoHandle
  /\ ~isScanning
  /\ StartScan(dirHandle)
  /\ ev' = [op |-> "refresh"]
  /\ UNCHANGED << clients, recipients, sentHistory, dirHandle, folderHistory, files, lastScanTime,
                  lastScanSignatureRef, signatureFrom, now, nextId, passes, batches >>
  /\ SchedulerIdle

\* if (hasChanges) setRecipients(updatedRecipients)
PublishChanges(done, limit) ==
  IF done.hasChanges
  THEN Publish(done.updatedRecipients, batches, limit)
  ELSE UNCHANGED << recipients, batches >>

PublishIfChanged(done) == PublishChanges(done, MaxBatches)

\* effect 7 after setFiles(newFiles): nothing for an empty inventory or no
\* recipients; otherwise processMatches runs, to the end when it never awaits
Matching(newFiles, limit) ==
  IF Len(newFiles) = 0 \/ Len(recipients) = 0
  THEN UNCHANGED << recipients, passes, batches >>
  ELSE IF Suspends(recipients, newFiles)
  THEN /\ Len(passes) < MaxPasses
       /\ passes' = Append(passes, [recipients |-> recipients, files |-> newFiles])
       /\ UNCHANGED << recipients, batches >>
  ELSE /\ PublishChanges(processMatches(recipients, newFiles, {}, now), limit)
       /\ UNCHANGED passes

MatchingEffect(newFiles) == Matching(newFiles, MaxBatches)

\* how far the pass of effect 7 gets within the step that publishes newFiles
PassKind(newFiles) ==
  IF Len(newFiles) = 0 \/ Len(recipients) = 0 THEN "none"
  ELSE IF Suspends(recipients, newFiles) THEN "suspended"
  ELSE "completed"

\* EarlyReturn that forgets setLastScanTime
EarlyReturn_NoRefresh ==
  UNCHANGED << files, lastScanSignatureRef, signatureFrom, recipients, passes, batches, lastScanTime >>

\* the early return of scanDirectory: "Cache Optimization"
EarlyReturn ==
  /\ lastScanTime' = now
  /\ UNCHANGED << files, lastScanSignatureRef, signatureFrom, recipients, passes, batches >>

\* Failure that publishes the entries enumerated before the error
Failure_KeepsPartial(partial) ==
  /\ files' = partial
  /\ UNCHANGED << lastScanTime, lastScanSignatureRef, signatureFrom, recipients, passes, batches >>

\* catch: console.error and alert; nothing of the enumeration is published
Failure(partial) ==
  UNCHANGED << files, lastScanTime, lastScanSignatureRef, signatureFrom, recipients, passes, batches >>

\* scanDirectory from the end of the enumeration on
CompleteScan(k, throws, held, limit) ==
  /\ k \in DOMAIN scans
  /\ scans' = Remove(scans, k)
  /\ isScanning' = FALSE
  /\ LET newFiles         == Listing(held)
         currentSignature == Signature(newFiles)
     IN  IF throws
         THEN /\ Failure(newFiles)
              /\ ev' = [op |-> "scan", threw |-> TRUE, early |-> FALSE,
                       signature |-> <<>>, pass |-> "none", alert |-> TRUE,
                       partial |-> newFiles, handle |-> scans[k].handle,
                       switched |-> scans[k].switched, listing |-> newFiles]
         ELSE IF currentSignature = lastScanSignatureRef
         THEN /\ EarlyReturn
              /\ ev' = [op |-> "scan", threw |-> FALSE, early |-> TRUE,
                       signature |-> currentSignature, pass |-> "none",
                       alert |-> FALSE, partial |-> <<>>, handle |-> scans[k].handle,
                       switched |-> scans[k].switched, listing |-> newFiles]
         ELSE /\ lastScanSignatureRef' = currentSignature
              /\ signatureFrom' = scans[k].handle
              /\ files' = newFiles
              /\ lastScanTime' = now
              /\ Matching(newFiles, limit)
              /\ ev' = [op |-> "scan", threw |-> FALSE, early |-> FALSE,
                       signature |-> currentSignature, pass |-> PassKind(newFiles),
                       alert |-> FALSE, partial |-> <<>>, handle |-> scans[k].handle,
                       switched |-> scans[k].switched, listing |-> newFiles]
  /\ UNCHANGED << clients, sentHistory, dirHandle, folderHistory, now, nextId, scanCalls >>
  /\ SchedulerIdle

FinishScan(k, throws, held) == CompleteScan(k, throws, held, MaxBatches)

-----------------------------------------------------------------------------
(* Completion of the asynchronous passes *)

\* the end of processMatches: the publication, and the record of the pass
Conclude(done, k, failing, limit) ==
  /\ PublishChanges(done, limit)
  /\ ev' = [op |-> "pass", k |-> k, failing |-> failing, published |-> done.hasChanges]

EndPass(done, k, failing) == Conclude(done, k, failing, MaxBatches)

\* processMatches resumes after its awaits and runs to the end
ResumePass(k, failing, limit) ==
  /\ k \in DOMAIN passes
  /\ failing \subseteq Range(passes[k].files)
  /\ Conclude(processMatches(passes[k].recipients, passes[k].files, failing, now),
              k, failing, limit)
  /\ passes' = Remove(passes, k)
  /\ UNCHANGED << clients, sentHistory, dirHandle, folderHistory, files, isScanning, lastScanTime,
                  lastScanSignatureRef, signatureFrom, now, nextId, scanCalls, scans >>
  /\ SchedulerIdle

FinishPass(k, failing) == ResumePass(k, failing, MaxBatches)

\* generateContent after Promise.all, failed being the targets whose
\* generateEmailContent call rejected: Promise.all rejects with the first
\* rejection and setRecipients(updatedRecipients) is not reached
FinishBatch(failed) ==
  /\ batches # <<>>
  /\ failed \subseteq Targets(Head(batches).recipients)
  /\ IF failed = {}
     THEN SetRecipients(Head(batches).result, Tail(batches))
     ELSE /\ batches' = Tail(batches)
          /\ UNCHANGED recipients
  /\ ev' = [op |-> "batch", failed |-> failed]
  /\ UNCHANGED << clients, sentHistory, dirHandle, folderHistory, files, isScanning, lastScanTime,
                  lastScanSignatureRef, signatureFrom, now, nextId, scanCalls, scans, passes >>
  /\ SchedulerIdle

\* the batch in which every call returned
PublishBatch == FinishBatch({})

\* the continuation of one target's call: updatedRecipients[index] = {...}
Stored(b, id) ==
  LET index  == findIndex(b.updatedRecipients, id)
      target == b.recipients[findIndex(b.recipients, id)]
  IN  [b EXCEPT !.updatedRecipients[index] = Generated(b.updatedRecipients[index], target),
                !.open = @ \ {id}]

\* Await that publishes the local copy as each call returns
Await_Publishing(b) ==
  /\ batches' = <<b>> \o Tail(batches)
  /\ recipients' = b.updatedRecipients

\* Promise.all goes on awaiting: the local copy stays local
Await(b) ==
  /\ batches' = <<b>> \o Tail(batches)
  /\ UNCHANGED recipients

\* the generateEmailContent call for the target id of the first batch returns
ReturnCall(id) ==
  /\ batches # <<>>
  /\ id \in Head(batches).open
  /\ Await(Stored(Head(batches), id))
  /\ ev' = [op |-> "call", id |-> id, local |-> Stored(Head(batches), id).updatedRecipients]
  /\ UNCHANGED << clients, sentHistory, dirHandle, folderHistory, files, isScanning, lastScanTime,
                  lastScanSignatureRef, signatureFrom, now, nextId, scanCalls, scans, passes >>
  /\ SchedulerIdle

\* Promise.all resolves once every call has returned: setRecipients(updatedRecipients)
Resolve(limit) ==
  /\ batches # <<>>
  /\ Head(batches).open = {}
  /\ Publish(Head(batches).updatedRecipients, Tail(batches), limit)
  /\ ev' = [op |-> "resolve", targets |-> Targets(Head(batches).recipients)]
  /\ UNCHANGED << clients, sentHistory, dirHandle, folderHistory, files, isScanning, lastScanTime,
                  lastScanSignatureRef, signatureFrom, now, nextId, scanCalls, scans, passes >>
  /\ SchedulerIdle

ResolveBatch == Resolve(MaxBatches)

\* the call for the target id rejects: Promise.all rejects and
\* setRecipients(updatedRecipients) is not reached
RejectCall(id) ==
  /\ batches # <<>>
  /\ id \in Head(batches).open
  /\ batches' = Tail(batches)
  /\ ev' = [op |-> "reject", id |-> id]
  /\ UNCHANGED << clients, recipients, sentHistory, dirHandle, folderHistory, files, isScanning,
                  lastScanTime, lastScanSignatureRef, signatureFrom, now, nextId, scanCalls,
                  scans, passes >>
  /\ SchedulerIdle

-----------------------------------------------------------------------------
(* Send and reset *)

\* cc/to: recipient.overrideTo || recipient.email, commas replaced, trimmed
ToAddress(r) ==
  Text(trim(replaceCommas(Spell[IF IsEmpty(r.overrideTo) THEN r.email ELSE r.overrideTo])))

\* handleSend that marks every recipient of the list as sent
handleSend_MarksAll(r, rs, history, time) ==
  IF IsEmpty(r.emailBody) \/ IsEmpty(r.emailSubject)
  THEN [recipients |-> rs, sentHistory |-> history]
  ELSE [ recipients  |-> [i \in DOMAIN rs |-> [rs[i] EXCEPT !.status = "sent"]],
         sentHistory |-> << [ timestamp      |-> time,
                              recipientSigla |-> r.sigla,
                              recipientEmail |-> ToAddress(r),
                              subject        |-> r.emailSubject ] >> \o history ]

\* handleSend that marks the recipient as sent and writes no log entry
handleSend_Unlogged(r, rs, history, time) ==
  IF IsEmpty(r.emailBody) \/ IsEmpty(r.emailSubject)
  THEN [recipients |-> rs, sentHistory |-> history]
  ELSE [ recipients  |-> [i \in DOMAIN rs |->
                            IF rs[i].id = r.id THEN [rs[i] EXCEPT !.status = "sent"]
                            ELSE rs[i]],
         sentHistory |-> history ]

\* handleSend(recipient): what it makes of the recipient list and the log
handleSend(r, rs, history, time) ==
  IF IsEmpty(r.emailBody) \/ IsEmpty(r.emailSubject)
  THEN [recipients |-> rs, sentHistory |-> history]
  ELSE [ recipients  |-> [i \in DOMAIN rs |->
                            IF rs[i].id = r.id THEN [rs[i] EXCEPT !.status = "sent"]
                            ELSE rs[i]],
         sentHistory |-> << [ timestamp      |-> time,
                              recipientSigla |-> r.sigla,
                              recipientEmail |-> ToAddress(r),
                              subject        |-> r.emailSubject ] >> \o history ]

\* the "Enviar" button, shown for a recipient in status ready
Send(i) ==
  /\ i \in DOMAIN recipients
  /\ recipients[i].status = "ready"
  /\ Len(sentHistory) < MaxLog
  /\ LET out == handleSend(recipients[i], recipients, sentHistory, now)
     IN  /\ sentHistory' = out.sentHistory
         /\ IF out.recipients # recipients
            THEN SetRecipients(out.recipients, batches)
            ELSE UNCHANGED << recipients, batches >>
  /\ ev' = [op |-> "send", id |-> recipients[i].id]
  /\ UNCHANGED << clients, dirHandle, folderHistory, files, isScanning, lastScanTime,
                  lastScanSignatureRef, signatureFrom, now, nextId, scanCalls, scans, passes >>
  /\ SchedulerIdle

\* handleResetStatus(recipient)
handleResetStatus(r, rs) ==
  [i \in DOMAIN rs |-> IF rs[i].id # r.id THEN rs[i] ELSE [rs[i] EXCEPT !.status = "pending"]]

\* the reset button, shown for a recipient in status sent
Reset(i) ==
  /\ i \in DOMAIN recipients
  /\ recipients[i].status = "sent"
  /\ SetRecipients(handleResetStatus(recipients[i], recipients), batches)
  /\ ev' = [op |-> "reset", id |-> recipients[i].id]
  /\ UNCHANGED << clients, sentHistory, dirHandle, folderHistory, files, isScanning, lastScanTime,
                  lastScanSignatureRef, signatureFrom, now, nextId, scanCalls, scans, passes >>
  /\ SchedulerIdle

-----------------------------------------------------------------------------

Next ==
  \/ Tick
  \/ \E form \in ClientForms : AddClient(form)
  \/ \E i \in 1..MaxIds, services \in ServiceChoices : EditClient(i, services)
  \/ \E i \in 1..MaxIds : DeleteClient(i)
  \/ \E handle \in Folders : SelectFolder(handle)
  \/ Refresh
  \/ \E k \in 1..MaxScans, throws \in BOOLEAN, held \in FolderContents :
        FinishScan(k, throws, held)
  \/ \E k \in 1..MaxPasses, failing \in FolderContents : FinishPass(k, failing)
  \/ PublishBatch
  \/ \E i \in 1..MaxIds : Send(i)
  \/ \E i \in 1..MaxIds : Reset(i)

Spec == Init /\ [][Next]_vars

-----------------------------------------------------------------------------
(* Specifications that apply one operation to states the program has
   reached: a registry of one or two entries, a first scan and pass over a
   folder, and then possibly the content batch, a send and a reset *)

\* the forms the registry was filled from
StageForms == { [f EXCEPT !.services = sv] : f \in ClientForms, sv \in ServiceChoices }

\* registries of one entry and of two entries with different codes
Registries ==
  { mergeClients(<<>>, f, 1) : f \in StageForms }
    \cup { mergeClients(mergeClients(<<>>, f, 1), g, 2) :
             f \in { x \in StageForms : SiglaKey(x.sigla) = SiglaKey("JFAL") },
             g \in { x \in StageForms : SiglaKey(x.sigla) # SiglaKey("JFAL") } }
    \cup { mergeClients(mergeClients(<<>>, g, 1), f, 2) :
             f \in { x \in StageForms : SiglaKey(x.sigla) = SiglaKey("JFAL") },
             g \in { x \in StageForms : SiglaKey(x.sigla) # SiglaKey("JFAL") } }

\* what any folder may hold
AnyContents == SUBSET Range(FileCatalog)

Stages == {"passed", "generated", "sent", "reset"}

\* the recipients and the log at the stage, from the list after the content
\* batch and what handleSend made of its first recipient
StageSent(passed, generated, sent, stage) ==
  CASE stage = "passed"    -> [recipients |-> passed, sentHistory |-> <<>>]
    [] stage = "generated" -> [recipients |-> generated, sentHistory |-> <<>>]
    [] stage = "sent"      -> sent
    [] stage = "reset"     -> [sent EXCEPT !.recipients =
                                 IF sent.recipients[1].status = "sent"
                                 THEN handleResetStatus(sent.recipients[1], sent.recipients)
                                 ELSE @]

StageGenerated(passed, generated, stage) ==
  StageSent(passed, generated, handleSend(generated[1], generated, <<>>, 0), stage)

StagePassed(passed, stage) == StageGenerated(passed, GeneratedList(passed), stage)

\* the recipients and the log after the first pass over prior and the stage
Staged(cs, prior, stage) ==
  StagePassed(processMatches(MapClients(cs, <<>>), Listing(prior), {}, 0).updatedRecipients,
              stage)

StagedInit ==
  \E cs \in Registries, prior \in AnyContents, cur \in AnyContents, stage \in Stages :
     \E staged \in {Staged(cs, prior, stage)} :
        /\ clients = cs
        /\ recipients = staged.recipients
        /\ sentHistory = staged.sentHistory
        /\ dirHandle \in Folders
        /\ folderHistory = <<dirHandle>>
        /\ files = Listing(cur)
        /\ isScanning = FALSE
        /\ lastScanTime = 0
        /\ lastScanSignatureRef = Signature(Listing(cur))
        /\ signatureFrom = dirHandle
        /\ now = 0
        /\ nextId = Len(cs)
        /\ scanCalls = 0
        /\ scans = <<>>
        /\ passes = <<>>
        /\ batches = StartGenerate(recipients, <<>>)
        /\ scanConfig = [mode |-> "disabled", intervalMinutes |-> DefaultInterval]
        /\ lastAutoScanRef = 0
        /\ heartbeat = NoTimer
        /\ autoLog = <<>>
        /\ ev = [op |-> "staged"]

\* effect 7 from its guard to setRecipients, with nothing in between
RunPass(failing) ==
  /\ Len(files) # 0 /\ Len(recipients) # 0
  /\ failing \subseteq Range(files)
  /\ EndPass(processMatches(recipients, files, failing, now), 0, failing)
  /\ UNCHANGED << clients, sentHistory, dirHandle, folderHistory, files, isScanning, lastScanTime,
                  lastScanSignatureRef, signatureFrom, now, nextId, scanCalls, scans, passes >>
  /\ SchedulerIdle

PassNext ==
  \/ Tick
  \/ \E failing \in SUBSET Range(FileCatalog) : RunPass(failing)
  \/ PublishBatch

PassSpec == StagedInit /\ [][PassNext]_vars

-----------------------------------------------------------------------------
(* The pass of effect 7 await by await: processMatches works on its local
   copy updatedRecipients, p.i being the recipient it is at *)

\* the iteration for r reaches await getFileTimestamp(match)
Awaits(r, fileNames) ==
  /\ r.status # "sent"
  /\ MatchLoop(r, ServicesToCheck(r), fileNames, {}).matchedFiles # <<>>

\* one iteration of the loop: updatedRecipients[i] and hasChanges
Iterate(p, failing, time) ==
  LET one == ProcessOne(p.updatedRecipients[p.i], p.files, failing, time)
  IN  [p EXCEPT !.updatedRecipients[p.i] = one.r,
                !.hasChanges = @ \/ one.changed,
                !.i = @ + 1]

\* the loop runs on through the iterations that await nothing
RECURSIVE RunOn(_, _)
RunOn(p, time) ==
  IF p.i > Len(p.updatedRecipients) THEN p
  ELSE IF Awaits(p.updatedRecipients[p.i], p.files) THEN p
  ELSE RunOn(Iterate(p, {}, time), time)

\* Suspend that publishes what the loop has so far
Suspend_Publishing(p, k) ==
  /\ passes' = IF k = 0 THEN Append(passes, p) ELSE [passes EXCEPT ![k] = p]
  /\ PublishIfChanged(p)

\* the pass stops at an await: what it has so far stays in its local copy
Suspend(p, k) ==
  /\ passes' = IF k = 0 THEN Append(passes, p) ELSE [passes EXCEPT ![k] = p]
  /\ UNCHANGED << recipients, batches >>

\* the loop is over: if (hasChanges) setRecipients(updatedRecipients)
Complete(p, k) ==
  /\ passes' = IF k = 0 THEN passes ELSE Remove(passes, k)
  /\ PublishIfChanged(p)

\* the pass p, numbered k once it has suspended, up to its next await or its end
Proceed(p, k) ==
  /\ IF p.i > Len(p.updatedRecipients) THEN Complete(p, k) ELSE Suspend(p, k)
  /\ ev' = [op |-> "passStep", finished |-> p.i > Len(p.updatedRecipients),
            local |-> p.updatedRecipients, hasChanges |-> p.hasChanges, at |-> p.i]
  /\ UNCHANGED << clients, sentHistory, dirHandle, folderHistory, files, isScanning,
                  lastScanTime, lastScanSignatureRef, signatureFrom, now, nextId,
                  scanCalls, scans >>
  /\ SchedulerIdle

\* effect 7 from its guard to the first await of processMatches
BeginPass ==
  /\ Len(files) # 0 /\ Len(recipients) # 0
  /\ Len(passes) < MaxPasses
  /\ Proceed(RunOn([recipients |-> recipients, files |-> files,
                    updatedRecipients |-> recipients, hasChanges |-> FALSE,
                    i |-> 1], now), 0)

\* processMatches resumes after the awaits of one recipient, failing being
\* the files whose getFile rejects
StepPass(k, failing) ==
  /\ k \in DOMAIN passes
  /\ failing \subseteq Range(passes[k].files)
  /\ Proceed(RunOn(Iterate(passes[k], failing, now), now), k)

StepNext ==
  \/ Tick
  \/ BeginPass
  \/ \E k \in 1..MaxPasses, failing \in SUBSET Range(FileCatalog) : StepPass(k, failing)
  \/ PublishBatch

StepSpec == StagedInit /\ [][StepNext]_vars

\* handleSend(recipient) for any recipient of the list
InvokeSend(i) ==
  /\ i \in DOMAIN recipients
  /\ Len(sentHistory) < MaxLog
  /\ LET out == handleSend(recipients[i], recipients, sentHistory, now)
     IN  /\ sentHistory' = out.sentHistory
         /\ IF out.recipients # recipients
            THEN SetRecipients(out.recipients, batches)
            ELSE UNCHANGED << recipients, batches >>
  /\ ev' = [op |-> "send", id |-> recipients[i].id]
  /\ UNCHANGED << clients, dirHandle, folderHistory, files, isScanning, lastScanTime,
                  lastScanSignatureRef, signatureFrom, now, nextId, scanCalls, scans, passes >>
  /\ SchedulerIdle

SendNext ==
  \/ Tick
  \/ \E i \in 1..(MaxIds + 1) : InvokeSend(i)
  \/ PublishBatch

SendSpec == StagedInit /\ [][SendNext]_vars

\* content batches in flight at once in BatchSpec and BulkSpec
MaxOverlap == 2

\* recipients.filter(r => r.status === 'ready')
ReadyRecipients(rs) == SelectSeq(rs, LAMBDA r : r.status = "ready")

\* readyRecipients.forEach(r => handleSend(r)): the functional updates of
\* each call applied to what the call before it left
RECURSIVE SendAll(_, _, _, _)
SendAll(ready, rs, history, time) ==
  IF ready = <<>>
  THEN [recipients |-> rs, sentHistory |-> history]
  ELSE LET out == handleSend(Head(ready), rs, history, time)
       IN  SendAll(Tail(ready), out.recipients, out.sentHistory, time)

\* handleSendPending, confirmed being the answer to window.confirm; limit is
\* the number of content batches explored
BulkSend(confirmed, limit) ==
  /\ Len(sentHistory) + Len(ReadyRecipients(recipients)) <= MaxLog
  /\ IF Len(ReadyRecipients(recipients)) = 0 \/ ~confirmed
     THEN UNCHANGED << recipients, sentHistory, batches >>
     ELSE LET out == SendAll(ReadyRecipients(recipients), recipients, sentHistory, now)
          IN  /\ sentHistory' = out.sentHistory
              /\ IF out.recipients # recipients
                 THEN Publish(out.recipients, batches, limit)
                 ELSE UNCHANGED << recipients, batches >>
  /\ ev' = [op |-> "sendPending", confirmed |-> confirmed,
            asked |-> Len(ReadyRecipients(recipients)) # 0]
  /\ UNCHANGED << clients, dirHandle, folderHistory, files, isScanning, lastScanTime,
                  lastScanSignatureRef, signatureFrom, now, nextId, scanCalls, scans, passes >>
  /\ SchedulerIdle

\* the "Enviar pendentes" button
handleSendPending(confirmed) == BulkSend(confirmed, MaxOverlap)

\* bulk sends after a first pass, between the content batches, single sends
\* and resets
BulkNext ==
  \/ Tick
  \/ \E confirmed \in BOOLEAN : handleSendPending(confirmed)
  \/ \E i \in 1..(MaxIds + 1) : Reset(i)
  \/ PublishBatch

BulkSpec == StagedInit /\ [][BulkNext]_vars

\* the content batch of a staged state completes, any of its calls failing
GenNext ==
  \/ Tick
  \/ \E failed \in SUBSET (1..(MaxIds + 1)) : FinishBatch(failed)

GenSpec == StagedInit /\ [][GenNext]_vars

\* the content batches call by call, while scans and passes over the
\* folder go on and start further batches
BatchNext ==
  \/ Refresh
  \/ \E k \in 1..MaxScans, throws \in BOOLEAN, held \in AnyContents :
        CompleteScan(k, throws, held, MaxOverlap)
  \/ \E k \in 1..MaxPasses : ResumePass(k, {}, MaxOverlap)
  \/ \E id \in 1..(MaxIds + 1) : ReturnCall(id)
  \/ \E id \in 1..(MaxIds + 1) : RejectCall(id)
  \/ Resolve(MaxOverlap)

BatchSpec == StagedInit /\ [][BatchNext]_vars

\* a staged state in which a pass over the inventory would change nothing:
\* the recipients are the ones the last pass published
RescanInit ==
  /\ StagedInit
  /\ ~processMatches(recipients, files, {}, 0).hasChanges

\* resets and further scans of the folder after the first pass
RescanNext ==
  \/ \E i \in 1..(MaxIds + 1) : Reset(i)
  \/ Refresh
  \/ \E k \in 1..MaxScans, throws \in BOOLEAN, held \in FolderContents :
        FinishScan(k, throws, held)
  \/ \E k \in 1..MaxPasses, failing \in FolderContents : FinishPass(k, failing)
  \/ PublishBatch

RescanSpec == RescanInit /\ [][RescanNext]_vars

\* folder selections explored by FolderSpec
MaxSelections == 3

\* the operator moves between folders, through the picker and through the
\* session history, with an empty registry
FolderNext ==
  \/ \E handle \in Directories : Select(handle, MaxSelections)
  \/ \E handle \in Directories : HistorySelect(handle, MaxSelections)
  \/ Refresh
  \/ \E k \in 1..MaxSelections, throws \in BOOLEAN, held \in FolderContents :
        FinishScan(k, throws, held)

FolderSpec == Init /\ [][FolderNext]_vars

\* a content batch settles: each of its calls returns or rejects
SettleBatch == \E failed \in SUBSET (1..(MaxIds + 1)) : FinishBatch(failed)

\* passes over the inventory and content batches that always settle
LiveNext ==
  \/ Tick
  \/ RunPass({})
  \/ SettleBatch

LiveSpec == StagedInit /\ [][LiveNext]_vars /\ WF_vars(SettleBatch)

-----------------------------------------------------------------------------
(* The scheduler: the settings panel and the heartbeat, on a folder that has
   been selected and scanned once, with an empty registry *)

\* setScanConfig({ ...scanConfig, mode }), followed by effect 6
SetMode(mode) ==
  /\ mode # scanConfig.mode
  /\ scanConfig' = [scanConfig EXCEPT !.mode = mode]
  /\ heartbeat' = Install(heartbeat, dirHandle, scanConfig', lastScanTime, isScanning)
  /\ ev' = [op |-> "setMode"]
  /\ UNCHANGED << clients, recipients, sentHistory, dirHandle, folderHistory, files, isScanning,
                  lastScanTime, lastScanSignatureRef, signatureFrom, now, nextId, scanCalls, scans,
                  passes, batches, lastAutoScanRef, autoLog >>

\* setScanConfig({ ...scanConfig, intervalMinutes }), offered in interval mode
SetInterval(minutes) ==
  /\ scanConfig.mode = "interval"
  /\ minutes # scanConfig.intervalMinutes
  /\ scanConfig' = [scanConfig EXCEPT !.intervalMinutes = minutes]
  /\ heartbeat' = Install(heartbeat, dirHandle, scanConfig', lastScanTime, isScanning)
  /\ ev' = [op |-> "setInterval"]
  /\ UNCHANGED << clients, recipients, sentHistory, dirHandle, folderHistory, files, isScanning,
                  lastScanTime, lastScanSignatureRef, signatureFrom, now, nextId, scanCalls, scans,
                  passes, batches, lastAutoScanRef, autoLog >>

\* one call of checkAutoScan by the timer
CheckAutoScan ==
  /\ heartbeat.installed
  /\ IF Fires(heartbeat, Stamp(now), lastAutoScanRef)
     THEN /\ lastAutoScanRef' = Stamp(now)
          /\ autoLog' = Append(autoLog, [ stamp |-> Stamp(now),
                                          mode  |-> heartbeat.scanConfig.mode ])
          /\ StartScan(heartbeat.dirHandle)
          /\ heartbeat' = Install(heartbeat, dirHandle, scanConfig, lastScanTime, isScanning')
          /\ ev' = [op |-> "check", started |-> TRUE]
     ELSE /\ UNCHANGED << lastAutoScanRef, autoLog, isScanning, scanCalls, scans, heartbeat >>
          /\ ev' = [op |-> "check", started |-> FALSE]
  /\ UNCHANGED << clients, recipients, sentHistory, dirHandle, folderHistory, files, lastScanTime,
                  lastScanSignatureRef, signatureFrom, now, nextId, passes, batches, scanConfig >>

\* the clock moves on through the calendar
Later == Elapse(MaxInstant)

\* the folder was selected at one of the first two instants and its scan has
\* completed, with or without an error
SchedInit ==
  \E handle \in Folders, held \in FolderContents, threw \in BOOLEAN, t0 \in 0..MaxTime :
     /\ clients = <<>>
     /\ recipients = <<>>
     /\ sentHistory = <<>>
     /\ dirHandle = handle
     /\ folderHistory = <<handle>>
     /\ files = IF threw THEN <<>> ELSE Listing(held)
     /\ isScanning = FALSE
     /\ lastScanTime = IF threw THEN NoTime ELSE t0
     /\ lastScanSignatureRef = IF threw THEN <<>> ELSE Signature(Listing(held))
     /\ signatureFrom = IF threw THEN NoHandle ELSE handle
     /\ now = t0
     /\ nextId = 0
     /\ scanCalls = 0
     /\ scans = <<>>
     /\ passes = <<>>
     /\ batches = <<>>
     /\ scanConfig = [mode |-> "disabled", intervalMinutes |-> DefaultInterval]
     /\ lastAutoScanRef = 0
     /\ heartbeat = NoTimer
     /\ autoLog = <<>>
     /\ ev = [op |-> "staged"]

SchedNext ==
  \/ Later
  \/ \E mode \in Modes : SetMode(mode)
  \/ \E minutes \in IntervalOptions : SetInterval(minutes)
  \/ CheckAutoScan
  \/ \E handle \in Folders : SelectFolder(handle)
  \/ Refresh
  \/ \E k \in 1..MaxScans, throws \in BOOLEAN, held \in FolderContents :
        FinishScan(k, throws, held)

SchedSpec == SchedInit /\ [][SchedNext]_vars

-----------------------------------------------------------------------------
(* The helpers called on their own: the arguments are drawn at the start,
   a step applies the helper to them and records what it returned *)

\* the longest text normalizeText is given
MaxLen == 3

\* the files of a listing
MaxListing == 2

\* the characters the texts are made of: plain letters of both cases, a
\* digit, a space, punctuation, precomposed accented letters, a bare mark
ProbeChars == {"a", "A", "7", " ", "_", "c,", "C,", "U+0327"}

RECURSIVE SeqsUpTo(_, _)
\* the sequences over S of length at most n
SeqsUpTo(S, n) ==
  IF n = 0 THEN {<<>>}
  ELSE SeqsUpTo(S, n - 1)
         \cup {Append(q, x) : q \in {p \in SeqsUpTo(S, n - 1) : Len(p) = n - 1}, x \in S}

\* listings: no name twice, as a folder lists them
Distinct(q) == \A i, j \in DOMAIN q : i # j => q[i] # q[j]

ProbeTexts == SeqsUpTo(ProbeChars, MaxLen)

ProbeListings == {q \in SeqsUpTo(ProbeFiles, MaxListing) : Distinct(q)}

\* names of files given by their characters, one of them holding the
\* separator of the fingerprint
ProbeFileNames == {<<"a">>, <<"b">>, <<"B">>, <<"a", "b">>, <<"a", "|", "b">>}

ProbeNameListings == {q \in SeqsUpTo(ProbeFileNames, MaxListing + 1) : Distinct(q)}

\* recipients as effect 3 creates them from registry entries: the codes
\* and names a form accepts, with every selection of services
ProbeRecipients ==
  { NewRecipient([id |-> 1, sigla |-> a, name |-> n, email |-> "ti@jfal.br",
                  services |-> sv]) :
      a \in ProbeSiglas \ {"", "JFAL "}, n \in ProbeNames, sv \in ServiceChoices }

ProbeArgs ==
  { [op |-> "args", fn |-> "normalizeText", text |-> t] : t \in ProbeTexts }
    \cup { [op |-> "args", fn |-> "findKeywordMatch", recipientName |-> n,
            agencyName |-> a, serviceName |-> sv, files |-> fs] :
              n \in ProbeNames, a \in ProbeSiglas, sv \in ProbeServices,
              fs \in ProbeListings }
    \cup { [op |-> "args", fn |-> "fingerprint", names |-> q] : q \in ProbeNameListings }
    \cup { [op |-> "args", fn |-> "reconcile", r |-> r, files |-> Listing(held)] :
              r \in ProbeRecipients, held \in AnyContents }

\* the program as it is mounted, with the arguments of one call
CallInit ==
  /\ clients = <<>>
  /\ recipients = <<>>
  /\ sentHistory = <<>>
  /\ dirHandle = NoHandle
  /\ folderHistory = <<>>
  /\ files = <<>>
  /\ isScanning = FALSE
  /\ lastScanTime = NoTime
  /\ lastScanSignatureRef = <<>>
  /\ signatureFrom = NoHandle
  /\ now = 0
  /\ nextId = 0
  /\ scanCalls = 0
  /\ scans = <<>>
  /\ passes = <<>>
  /\ batches = <<>>
  /\ scanConfig = [mode |-> "disabled", intervalMinutes |-> DefaultInterval]
  /\ lastAutoScanRef = 0
  /\ heartbeat = NoTimer
  /\ autoLog = <<>>
  /\ ev \in ProbeArgs

\* a helper reads and writes no state of the component
NoState ==
  UNCHANGED << clients, recipients, sentHistory, dirHandle, folderHistory, files, isScanning,
               lastScanTime, lastScanSignatureRef, signatureFrom, now, nextId, scanCalls, scans,
               passes, batches, scanConfig, lastAutoScanRef, heartbeat, autoLog >>

CallNormalizeText ==
  /\ ev.op = "args" /\ ev.fn = "normalizeText"
  /\ ev' = [op |-> "normalizeText", text |-> ev.text, result |-> normalizeText(ev.text)]
  /\ NoState

CallFindKeywordMatch ==
  /\ ev.op = "args" /\ ev.fn = "findKeywordMatch"
  /\ ev' = [op |-> "findKeywordMatch", recipientName |-> ev.recipientName,
            agencyName |-> ev.agencyName, serviceName |-> ev.serviceName,
            files |-> ev.files,
            result |-> findKeywordMatch(ev.recipientName, ev.agencyName,
                                        ev.serviceName, ev.files)]
  /\ NoState

CallFingerprint ==
  /\ ev.op = "args" /\ ev.fn = "fingerprint"
  /\ ev' = [op |-> "fingerprint", names |-> ev.names, result |-> Fingerprint(ev.names)]
  /\ NoState

\* one iteration of the loop of processMatches, no getFile() failing
CallReconcile ==
  /\ ev.op = "args" /\ ev.fn = "reconcile"
  /\ ev' = [op |-> "reconcile", r |-> ev.r, files |-> ev.files,
            result |-> ProcessOne(ev.r, ev.files, {}, now).r]
  /\ NoState

CallNext == CallNormalizeText \/ CallFindKeywordMatch \/ CallFingerprint \/ CallReconcile

CallSpec == CallInit /\ [][CallNext]_vars

-----------------------------------------------------------------------------
(* The registry on its own: loaded from localStorage, then changed through
   the client manager (add, edit, import, delete) with no folder selected *)

\* registry entries ever created in RegSpec
MaxEntries == 2

\* what the operator may leave in the form when saving an edit
EditForms == StageForms

\* the rows of an imported CSV file
ImportRows == SeqsUpTo(ClientForms, MaxEntries) \ {<<>>}

\* what localStorage may hold at mount: nothing, lists the client manager
\* wrote, among them one with two entries of the same code
StoredLists ==
  { <<>> }
    \cup { mergeClients(<<>>, f, 1) : f \in ClientForms }
    \cup { importClients(<<>>, rows, 0) : rows \in ImportRows }
    \cup { editClient(importClients(<<>>, rows, 0), 2, f) :
             rows \in {q \in ImportRows : Len(importClients(<<>>, q, 0)) = 2},
             f \in ClientForms }

\* effect 1: setClients(normalizeAndMergeClients(parsed)), then effect 3
RegInit ==
  \E stored \in StoredLists :
     /\ clients = normalizeAndMergeClients(stored)
     /\ recipients = MapClients(clients, <<>>)
     /\ sentHistory = <<>>
     /\ dirHandle = NoHandle
     /\ folderHistory = <<>>
     /\ files = <<>>
     /\ isScanning = FALSE
     /\ lastScanTime = NoTime
     /\ lastScanSignatureRef = <<>>
     /\ signatureFrom = NoHandle
     /\ now = 0
     /\ nextId = Len(stored)
     /\ scanCalls = 0
     /\ scans = <<>>
     /\ passes = <<>>
     /\ batches = <<>>
     /\ scanConfig = [mode |-> "disabled", intervalMinutes |-> DefaultInterval]
     /\ lastAutoScanRef = 0
     /\ heartbeat = NoTimer
     /\ autoLog = <<>>
     /\ ev = [op |-> "load"]

\* the CSV import: mergeClients(clients, incomingClients)
ImportClients(rows) ==
  /\ nextId' = importedIds(clients, rows, nextId)
  /\ nextId' <= MaxEntries
  /\ SetClients(importClients(clients, rows, nextId))
  /\ ev' = [op |-> "import"]
  /\ UNCHANGED << sentHistory, dirHandle, folderHistory, files, isScanning, lastScanTime,
                  lastScanSignatureRef, signatureFrom, now, scanCalls, scans, passes >>
  /\ SchedulerIdle

RegNext ==
  \/ \E form \in StageForms : SaveNew(form, MaxEntries)
  \/ \E i \in 1..MaxEntries, form \in EditForms : SaveEdit(i, form)
  \/ \E rows \in ImportRows : ImportClients(rows)
  \/ \E i \in 1..MaxEntries : DeleteClient(i)

RegSpec == RegInit /\ [][RegNext]_vars

\* the registry is edited while scans, passes and content batches are in flight
RaceNext ==
  \/ \E form \in ClientForms : SaveNew(form, MaxEntries)
  \/ \E i \in 1..MaxEntries, services \in ServiceChoices : EditClient(i, services)
  \/ \E i \in 1..MaxEntries : DeleteClient(i)
  \/ Refresh
  \/ \E k \in 1..MaxScans, held \in FolderContents : FinishScan(k, FALSE, held)
  \/ \E k \in 1..MaxPasses : FinishPass(k, {})
  \/ PublishBatch

\* a registry of JFAL and a second entry, nothing sent, no batch in flight
\* and the folder found empty by the last scan
RaceInit ==
  /\ StagedInit
  /\ Len(clients) = 2 /\ clients[1].sigla = "JFAL"
  /\ sentHistory = <<>>
  /\ batches = <<>>
  /\ files = <<>>

RaceSpec == RaceInit /\ [][RaceNext]_vars

\* the registry is edited from the panel after a first pass, with or without
\* a content batch in flight
EditNext ==
  \/ \E form \in StageForms : SaveNew(form, MaxEntries)
  \/ \E i \in 1..MaxEntries, form \in EditForms : SaveEdit(i, form)
  \/ \E i \in 1..MaxEntries : DeleteClient(i)
  \/ PublishBatch

EditSpec == StagedInit /\ [][EditNext]_vars

-----------------------------------------------------------------------------
(* Properties of the reconciliation pass, send and reset under Spec *)

\* the three fields a pass writes, compared between two versions of a recipient
SameMatchFields(a, b) ==
  /\ a.status = b.status
  /\ a.matchedFiles = b.matchedFiles
  /\ a.missingServices = b.missingServices

\* C1: a reconciliation pass that starts while a recipient is sent publishes
\* that recipient with the status, matchedFiles and missingServices it had
\* when the pass started, whatever the inventory of the pass holds; this
\* covers the pass that resumes after its awaits and the pass that runs to
\* the end inside the step that publishes the inventory
C1_SentFrozenByPass ==
  [][ /\ (ev'.op = "pass" /\ ev'.published) =>
           \A i \in DOMAIN passes[ev'.k].recipients :
              passes[ev'.k].recipients[i].status = "sent" =>
                 SameMatchFields(recipients'[i], passes[ev'.k].recipients[i])
      /\ (ev'.op = "scan" /\ ev'.pass = "completed") =>
           \A i \in DOMAIN recipients :
              recipients[i].status = "sent" =>
                 SameMatchFields(recipients'[i], recipients[i]) ]_vars

\* a pass ran over a sent recipient whose recorded matches differ from what
\* the new inventory would give
C1_Witness ==
  /\ ev.op = "scan" /\ ev.pass = "completed"
  /\ \E i \in DOMAIN recipients :
        /\ recipients[i].status = "sent"
        /\ MatchLoop(recipients[i], ServicesToCheck(recipients[i]), files, {}).matchedFiles
             # recipients[i].matchedFiles

\* C2: the only step that changes the status of a sent recipient is the
\* explicit reset of that recipient, which sets it to pending
C2_OnlyResetLeavesSent ==
  [][ \A i \in DOMAIN recipients : \A j \in DOMAIN recipients' :
        ( /\ recipients[i].status = "sent"
          /\ recipients'[j].id = recipients[i].id
          /\ recipients'[j].status # "sent" )
        => ( /\ ev'.op = "reset"
             /\ ev'.id = recipients[i].id
             /\ recipients'[j].status = "pending" ) ]_vars

\* C3: in every reachable state a ready recipient has a non-empty subject
\* and body, no missing service, a matched file, and a matched file for
\* every service currently configured for it
C3_ReadyIsComplete ==
  \A i \in DOMAIN recipients :
     recipients[i].status = "ready" =>
        /\ ~IsEmpty(recipients[i].emailSubject)
        /\ ~IsEmpty(recipients[i].emailBody)
        /\ recipients[i].missingServices = <<>>
        /\ recipients[i].matchedFiles # <<>>
        /\ \A s \in Range(recipients[i].services) :
              \E m \in Range(recipients[i].matchedFiles) : m.service = s

\* some service the pass would look for has no matching file among fileNames
LacksMatch(r, fileNames) ==
  \E s \in Range(ServicesToCheck(r)) :
     findKeywordMatch(r.name, r.sigla, s, fileNames) = None

\* C4: when a scan publishes an inventory in which some configured service
\* of a file_found or ready recipient has no matching file, the recipient
\* is pending after that step, or a pass over the new inventory is under way
C4_UnmatchedBecomesPending ==
  [][ ( /\ ev'.op = "scan" /\ ~ev'.threw
        /\ ev'.signature # lastScanSignatureRef )
      => \A i \in DOMAIN recipients :
            ( /\ recipients[i].status \in {"file_found", "ready"}
              /\ LacksMatch(recipients[i], files') )
            => ( recipients'[i].status = "pending" \/ ev'.pass = "suspended" ) ]_vars

\* C8: the explicit reset sets the status to pending and leaves the
\* recipient without subject, body, HTML body and override addresses
C8_ResetDiscardsContent ==
  [][ ev'.op = "reset" =>
        \A j \in DOMAIN recipients' :
           recipients'[j].id = ev'.id =>
              /\ recipients'[j].status = "pending"
              /\ IsEmpty(recipients'[j].emailSubject)
              /\ IsEmpty(recipients'[j].emailBody)
              /\ IsEmpty(recipients'[j].emailBodyHtml)
              /\ IsEmpty(recipients'[j].overrideTo)
              /\ IsEmpty(recipients'[j].overrideCc) ]_vars

\* C9: a scan whose fingerprint equals the cached one leaves the inventory,
\* the cache, the recipients and the passes and batches in flight as they
\* were, sets the last-scan time to the clock and clears the busy flag
C9_UnchangedScanIsNoOp ==
  [][ ( /\ ev'.op = "scan" /\ ~ev'.threw
        /\ ev'.signature = lastScanSignatureRef )
      => ( /\ files' = files
           /\ lastScanSignatureRef' = lastScanSignatureRef
           /\ recipients' = recipients
           /\ passes' = passes
           /\ batches' = batches
           /\ clients' = clients
           /\ sentHistory' = sentHistory
           /\ lastScanTime' = now
           /\ isScanning' = FALSE ) ]_vars

\* an unchanged scan of a folder with files completed with recipients in
\* place, after the clock had moved on from the previous scan
C9_Witness ==
  /\ ev.op = "scan" /\ ev.early
  /\ files # <<>>
  /\ recipients # <<>>
  /\ lastScanTime = MaxTime

-----------------------------------------------------------------------------
(* Properties of one pass (PassSpec) and of one send (SendSpec) *)

\* the recipient has a service to look for, and every service the pass looks
\* for has a file among fileNames that the match predicate accepts
FullySatisfied(r, fileNames) ==
  /\ (isCaixaRecipient(r) \/ Len(r.services) > 0)
  /\ \A sv \in Range(ServicesToCheck(r)) :
        \E f \in Range(fileNames) : IsCandidate(r.name, r.sigla, sv, f)

\* C5: a pass leaves a non-sent recipient in file_found or ready exactly
\* when the recipient has a configured service (or is the contract variant)
\* and every configured service has a matching file in the inventory; a
\* general-rule recipient with no configured service is pending after it
C5_SatisfiedIffAllMatched ==
  [][ ev'.op = "pass" =>
        \A i \in DOMAIN recipients :
           recipients[i].status # "sent" =>
              /\ recipients'[i].status \in {"file_found", "ready"}
                   <=> FullySatisfied(recipients[i], files)
              /\ ( ~isCaixaRecipient(recipients[i]) /\ recipients[i].services = <<>> )
                   => recipients'[i].status = "pending" ]_vars

\* a pass ran over a general-rule recipient without services while the
\* folder held files, next to a recipient it found satisfied
C5_Witness ==
  /\ ev.op = "pass"
  /\ files # <<>>
  /\ \E i \in DOMAIN recipients :
        /\ ~isCaixaRecipient(recipients[i])
        /\ recipients[i].services = <<>>
        /\ recipients[i].status = "pending"
  /\ \E i \in DOMAIN recipients :
        /\ recipients[i].status = "file_found"
        /\ FullySatisfied(recipients[i], files)

\* C6: after a pass a non-sent recipient is ready if it is fully satisfied
\* and was ready, file_found if it is fully satisfied and was pending or
\* file_found, and pending if it is not fully satisfied
C6_StatusAfterPass ==
  [][ ev'.op = "pass" =>
        \A i \in DOMAIN recipients :
           recipients[i].status # "sent" =>
              recipients'[i].status =
                 IF FullySatisfied(recipients[i], files)
                 THEN IF recipients[i].status = "ready" THEN "ready" ELSE "file_found"
                 ELSE "pending" ]_vars

\* a pass published a list in which one recipient stayed ready and another
\* one changed
C6_Witness ==
  /\ ev.op = "pass" /\ ev.published
  /\ \E i \in DOMAIN recipients :
        recipients[i].status = "ready" /\ FullySatisfied(recipients[i], files)
  /\ \E i \in DOMAIN recipients : recipients[i].status \in {"pending", "file_found"}

HasContent(r) == ~IsEmpty(r.emailBody) /\ ~IsEmpty(r.emailSubject)

\* C7: handleSend on a recipient with subject and body sets its status to
\* sent and nothing else of it, leaves every other recipient as it was, and
\* adds one entry to the log with the clock, the recipient's code, its
\* email address and its subject; on a recipient without subject or body it
\* changes neither the recipients nor the log
C7_SendMarksAndLogs ==
  [][ ev'.op = "send" =>
        \A i \in DOMAIN recipients :
           recipients[i].id = ev'.id =>
              IF HasContent(recipients[i])
              THEN /\ DOMAIN recipients' = DOMAIN recipients
                   /\ recipients'[i] = [recipients[i] EXCEPT !.status = "sent"]
                   /\ \A j \in DOMAIN recipients :
                         j # i => recipients'[j] = recipients[j]
                   /\ Len(sentHistory') = Len(sentHistory) + 1
                   /\ Tail(sentHistory') = sentHistory
                   /\ Head(sentHistory') =
                        [ timestamp      |-> now,
                          recipientSigla |-> recipients[i].sigla,
                          recipientEmail |-> recipients[i].email,
                          subject        |-> recipients[i].emailSubject ]
              ELSE /\ recipients' = recipients
                   /\ sentHistory' = sentHistory ]_vars

\* a send went through while another recipient, not sent, was in the list
C7_Witness ==
  /\ ev.op = "send"
  /\ sentHistory # <<>>
  /\ Head(sentHistory).timestamp = now
  /\ \E i \in DOMAIN recipients :
        /\ recipients[i].id = ev.id
        /\ recipients[i].status = "sent"
        /\ Head(sentHistory).recipientSigla = recipients[i].sigla
  /\ \E j \in DOMAIN recipients :
        recipients[j].id # ev.id /\ recipients[j].status = "ready"

\* a second pass over the recipients, with the timestamps that cannot be
\* read given by failing, at clock time
Silent(again) ==
  /\ ~again.hasChanges
  /\ \A i \in DOMAIN recipients :
        /\ SameMatchFields(again.updatedRecipients[i], recipients[i])
        /\ again.updatedRecipients[i].matchedTime = recipients[i].matchedTime

SecondPassSilent(failing, time) == Silent(processMatches(recipients, files, failing, time))

\* C10 as stated: after a pass, a second pass over the same inventory and
\* registry publishes nothing and leaves status, matchedFiles,
\* missingServices and matchedTime of every recipient as they are
C10_SecondPassSilent ==
  ev.op = "pass" =>
     \A failing \in SUBSET Range(files), time \in 0..MaxTime :
        SecondPassSilent(failing, time)

\* C10, amended: the same, for a second pass that reads the same
\* last-modified timestamps as the first
C10_SecondPassSilentSameTimestamps ==
  ev.op = "pass" =>
     \A time \in 0..MaxTime : SecondPassSilent(ev.failing, time)

\* a pass published matches for a recipient
C10_Witness ==
  /\ ev.op = "pass" /\ ev.published
  /\ \E i \in DOMAIN recipients :
        /\ recipients[i].status = "file_found"
        /\ recipients[i].matchedFiles # <<>>
        /\ recipients[i].matchedTime = now

-----------------------------------------------------------------------------
(* Properties of the scheduler (SchedSpec) *)

\* C11: in every reachable state at most one scanDirectory call is between
\* its start and its completion, whether the heartbeat, the refresh button
\* or a folder selection asked for the scan
C11_OneScanInFlight == Len(scans) <= 1

\* C12: no step taken while the mode is disabled starts an automatic scan,
\* whatever the clock and the last-scan time are, also after the mode has
\* been switched to disabled from interval or fixed
C12_DisabledNeverFires ==
  [][ scanConfig.mode = "disabled" =>
        /\ autoLog' = autoLog
        /\ lastAutoScanRef' = lastAutoScanRef
        /\ ~(ev'.op = "check" /\ ev'.started) ]_vars

\* the mode has just been switched to disabled, after an automatic scan, at
\* an instant at which the interval rule would let a scan start
C12_Witness ==
  /\ ev.op = "setMode"
  /\ scanConfig.mode = "disabled"
  /\ dirHandle # NoHandle
  /\ autoLog # <<>>
  /\ ~isScanning
  /\ Stamp(now) - lastAutoScanRef >= MinSpacing
  /\ Stamp(now) - TimeOf(lastScanTime) >= scanConfig.intervalMinutes * PeriodsPerMinute

\* the interval has elapsed since the last scan
IntervalElapsed ==
  Stamp(now) - TimeOf(lastScanTime) >= scanConfig.intervalMinutes * PeriodsPerMinute

\* C13 as stated: in interval mode a call of checkAutoScan starts a scan
\* exactly when the interval has elapsed since the last scan and no scan is
\* in flight
C13_IntervalFiresWhenDue ==
  [][ (ev'.op = "check" /\ scanConfig.mode = "interval") =>
        (ev'.started <=> (IntervalElapsed /\ ~isScanning)) ]_vars

\* C13, amended: the same, when also at least one minute has passed since
\* the previous automatic scan was started
C13_IntervalFiresWhenDueAndSpaced ==
  [][ (ev'.op = "check" /\ scanConfig.mode = "interval") =>
        (ev'.started <=> ( /\ IntervalElapsed
                           /\ ~isScanning
                           /\ Stamp(now) - lastAutoScanRef >= MinSpacing )) ]_vars

\* an automatic scan has just started in interval mode at the very instant
\* the interval had elapsed since the last scan
C13_Witness ==
  /\ ev.op = "check" /\ ev.started
  /\ scanConfig.mode = "interval"
  /\ lastScanTime # NoTime
  /\ Stamp(now) - Stamp(lastScanTime) = scanConfig.intervalMinutes * PeriodsPerMinute

\* both instants lie in the first five minutes after the same target hour of
\* the same day
SameWindow(a, b) ==
  /\ getHours(a) \in targetHours
  /\ getMinutes(a) < WindowMinutes
  /\ getMinutes(b) < WindowMinutes
  /\ a \div PeriodsPerHour = b \div PeriodsPerHour

\* C14: in fixed mode no automatic scan starts in a window in which an
\* automatic scan of fixed mode has started before
C14_OncePerWindow ==
  [][ (ev'.op = "check" /\ ev'.started /\ scanConfig.mode = "fixed") =>
        \A i \in DOMAIN autoLog :
           autoLog[i].mode = "fixed" => ~SameWindow(autoLog[i].stamp, Stamp(now)) ]_vars

\* nothing has been scanned in the hour of the clock: no scan is in flight,
\* none has completed in it and no automatic scan has started in it
HourUntouched ==
  /\ ~isScanning /\ scans = <<>>
  /\ lastScanTime # NoTime =>
        Stamp(lastScanTime) \div PeriodsPerHour # Stamp(now) \div PeriodsPerHour
  /\ \A i \in DOMAIN autoLog :
        autoLog[i].stamp \div PeriodsPerHour # Stamp(now) \div PeriodsPerHour

\* C15: in fixed mode a call of checkAutoScan outside every window starts no
\* scan, the first call inside a window starts one, and a call repeated at
\* the instant at which an automatic scan started starts none
C15_FixedWindowFiresOnce ==
  [][ (ev'.op = "check" /\ scanConfig.mode = "fixed") =>
        /\ ~SameWindow(Stamp(now), Stamp(now)) => ~ev'.started
        /\ (SameWindow(Stamp(now), Stamp(now)) /\ HourUntouched) => ev'.started
        /\ (\E i \in DOMAIN autoLog : autoLog[i].stamp = Stamp(now)) => ~ev'.started ]_vars

\* C16: any two automatic scans started by the heartbeat are at least one
\* minute apart
C16_AutoScansSpaced ==
  \A i \in DOMAIN autoLog : \A j \in DOMAIN autoLog :
     i < j => autoLog[j].stamp - autoLog[i].stamp >= MinSpacing

\* a second automatic scan has started less than two minutes after the
\* first, no scan having completed without an error so far
C16_Witness ==
  /\ Len(autoLog) = 2
  /\ autoLog[2].stamp - autoLog[1].stamp < 2 * MinSpacing
  /\ lastScanTime = NoTime

-----------------------------------------------------------------------------
(* Properties of the content batch (GenSpec) *)

\* the entries of a captured list the batch is for, as the specification
\* words them: a file was found, or ready with an empty body
Eligible(r) ==
  r.status = "file_found"
    \/ (r.status = "ready" /\ IsEmpty(r.emailBody))

\* the name of the first matched file of an entry, "" when it has none
FirstFileName(r) == IF r.matchedFiles = <<>> THEN "" ELSE Head(r.matchedFiles).fileName

\* the entry with the content made from its own name, code, first file and
\* services, and the status ready
Written(r, content) ==
  [r EXCEPT !.emailSubject  = content.subject,
            !.emailBody     = content.body,
            !.emailBodyHtml = content.bodyHtml,
            !.overrideTo    = content.overrideTo,
            !.overrideCc    = content.overrideCc,
            !.status        = "ready"]

\* C17: a batch whose calls all return publishes the captured list with every
\* eligible entry (file found, or ready without a body) given the content
\* generated from its name, agency code, first matched file name and services
\* and the status ready, and every other entry as it was captured
C17_BatchWritesTargets ==
  [][ (ev'.op = "batch" /\ ev'.failed = {}) =>
        /\ DOMAIN recipients' = DOMAIN Head(batches).recipients
        /\ \A i \in DOMAIN Head(batches).recipients :
             recipients'[i] =
               IF Eligible(Head(batches).recipients[i])
               THEN Written(Head(batches).recipients[i],
                            generateEmailContent(Head(batches).recipients[i].name,
                                                 Head(batches).recipients[i].sigla,
                                                 FirstFileName(Head(batches).recipients[i]),
                                                 Head(batches).recipients[i].services))
               ELSE Head(batches).recipients[i] ]_vars

\* a batch has published a list of two entries: one made ready with content,
\* the other not eligible and left alone
C17_Witness ==
  /\ ev.op = "batch" /\ ev.failed = {}
  /\ Len(recipients) = 2
  /\ \E i, j \in DOMAIN recipients :
       /\ recipients[i].status = "ready" /\ ~IsEmpty(recipients[i].emailBody)
       /\ recipients[j].status \in {"pending", "sent"}

-----------------------------------------------------------------------------
(* Properties of failing reads: a scan under Spec, a pass under PassSpec *)

\* C19: a scan whose enumeration fails ends inside scanDirectory: the busy
\* flag is cleared, the warning is shown, the inventory, the signature and
\* the scan time stay as they were, and no pass is started from it
C19_ScanFailureIsContained ==
  [][ (ev'.op = "scan" /\ ev'.threw) =>
        /\ isScanning' = FALSE
        /\ ev'.alert
        /\ files' = files
        /\ lastScanSignatureRef' = lastScanSignatureRef
        /\ lastScanTime' = lastScanTime
        /\ passes' = passes
        /\ recipients' = recipients ]_vars

\* a scan failed after it had enumerated some entries, other than the ones of
\* the inventory, and the inventory of the scan before it is still shown
C19_Witness ==
  /\ ev.op = "scan" /\ ev.threw
  /\ ev.partial # <<>>
  /\ files # <<>>
  /\ files # ev.partial
  /\ ~isScanning

\* fileNames[j] is the file the pass matches to the service sv of r
IsFirstCandidate(r, sv, fileNames, j) ==
  /\ IsCandidate(r.name, r.sigla, sv, fileNames[j])
  /\ \A h \in 1..(j - 1) : ~IsCandidate(r.name, r.sigla, sv, fileNames[h])

\* C20: a pass records the match of every service it looks for, with the
\* time of the file, or with the unknown time when reading the file failed,
\* and a recipient whose services are all matched leaves the pass in
\* file_found or ready whichever reads failed
C20_UnknownTimestampKeepsMatch ==
  [][ ev'.op = "pass" =>
        \A i \in DOMAIN recipients :
           recipients[i].status # "sent" =>
             /\ \A sv \in Range(ServicesToCheck(recipients[i])), j \in DOMAIN files :
                  IsFirstCandidate(recipients[i], sv, files, j) =>
                    \E m \in Range(recipients'[i].matchedFiles) :
                       /\ m.fileName = files[j]
                       /\ m.service = IF isCaixaRecipient(recipients[i])
                                      THEN PseudoServiceFound ELSE sv
                       /\ m.timestamp = IF files[j] \in ev'.failing
                                        THEN NoTime ELSE IndexOf(FileCatalog, files[j])
             /\ FullySatisfied(recipients[i], files)
                  => recipients'[i].status \in {"file_found", "ready"} ]_vars

\* a pass in which a read failed left a recipient in file_found with one
\* match of unknown time and one of known time
C20_Witness ==
  /\ ev.op = "pass" /\ ev.failing # {}
  /\ \E i \in DOMAIN recipients :
       /\ recipients[i].status = "file_found"
       /\ \E m \in Range(recipients[i].matchedFiles) :
            m.timestamp = NoTime /\ m.fileName \in ev.failing
       /\ \E m \in Range(recipients[i].matchedFiles) : m.timestamp # NoTime

-----------------------------------------------------------------------------
(* Progress of content generation (LiveSpec) *)

-----------------------------------------------------------------------------
(* Properties of the helpers called on their own (CallSpec) *)

\* the text normalized and trimmed
Clean(text) == trim(normalizeText(Spell[text]))

\* the recipient falls under the contract variant
IsVariant(recipientName, agencyName) ==
  \/ includes(Clean(recipientName), Str_caixa) /\ includes(Clean(recipientName), Str_federal)
  \/ Clean(agencyName) \in {Str_caixa, Str_jamc}

\* what the general rule looks for next to the service: the code, or the
\* name when the code is empty, at most two characters long or "geral"
GeneralKey(recipientName, agencyName) ==
  IF Len(Clean(agencyName)) <= 2 \/ Clean(agencyName) = Str_geral
  THEN Clean(recipientName)
  ELSE Clean(agencyName)

\* the first element of fileNames in wanted, None when there is none
FirstIn(fileNames, wanted) ==
  IF \E j \in DOMAIN fileNames : fileNames[j] \in wanted
  THEN fileNames[CHOOSE j \in DOMAIN fileNames :
                   /\ fileNames[j] \in wanted
                   /\ \A h \in 1..(j - 1) : fileNames[h] \notin wanted]
  ELSE None

\* the files whose normalized name contains the key and the label
Holding(fileNames, key, label) ==
  {f \in Range(fileNames) :
     includes(normalizeText(Spell[f]), key) /\ includes(normalizeText(Spell[f]), label)}

\* the label asked of the file name: the tickets keyword for a service whose
\* label contains it, the label itself otherwise
AskedLabel(serviceName) ==
  IF includes(Clean(serviceName), Str_chamados) THEN Str_chamados ELSE Clean(serviceName)

\* C22 as stated: under the general rule findKeywordMatch returns the first
\* file whose normalized name contains the code (or the name, for a code
\* that is empty, at most two characters long or "geral") and the
\* normalized service label, and none when no file does
C22_FirstFileWithCodeAndLabel ==
  (ev.op = "findKeywordMatch" /\ ~IsVariant(ev.recipientName, ev.agencyName)) =>
     ev.result = FirstIn(ev.files,
                         Holding(ev.files, GeneralKey(ev.recipientName, ev.agencyName),
                                 Clean(ev.serviceName)))

\* C22 amended: the same, with the tickets keyword asked in place of the
\* label for a service whose label contains it
C22_FirstFileWithCodeAndAskedLabel ==
  (ev.op = "findKeywordMatch" /\ ~IsVariant(ev.recipientName, ev.agencyName)) =>
     ev.result = FirstIn(ev.files,
                         Holding(ev.files, GeneralKey(ev.recipientName, ev.agencyName),
                                 AskedLabel(ev.serviceName)))

\* code JFAL with service Varonis was matched to the JFAL report listed
\* after the JFBR report
C22_Witness ==
  /\ ev.op = "findKeywordMatch"
  /\ ev.agencyName = "JFAL" /\ ev.serviceName = "Varonis"
  /\ ev.files = <<"relatorio_JFBR_Varonis_2024.pdf", "relatorio_JFAL_Varonis_2024.pdf">>
  /\ ev.result = "relatorio_JFAL_Varonis_2024.pdf"

\* the three fixed tokens of the contract variant
HasContractTokens(fileName) ==
  /\ includes(normalizeText(Spell[fileName]), Str_jamc)
  /\ includes(normalizeText(Spell[fileName]), Str_7490)
  /\ includes(normalizeText(Spell[fileName]), Str_2025)

C24_FingerprintOfNameSet ==
  ev.op = "fingerprint" =>
     \A other \in ProbeNameListings :
        /\ Range(other) = Range(ev.names) => Fingerprint(other) = ev.result
        /\ ( Range(other) # Range(ev.names)
               /\ (Range(other) \subseteq Range(ev.names)
                     \/ Range(ev.names) \subseteq Range(other)) )
             => Fingerprint(other) # ev.result

\* the fingerprint of three names listed out of sorted order was taken
C24_Witness ==
  /\ ev.op = "fingerprint"
  /\ ev.names = << <<"b">>, <<"a", "|", "b">>, <<"B">> >>
  /\ ev.result = <<"B", "|", "a", "|", "b", "|", "b">>

\* C25: normalizeText returns a text for every text, the empty one
\* included, and returns its own result unchanged
C25_NormalizeIdempotent ==
  ev.op = "normalizeText" =>
     /\ Range(ev.result) \subseteq PlainChars
     /\ ev.text = <<>> => ev.result = <<>>
     /\ normalizeText(ev.result) = ev.result

\* a text with an upper-case accented letter and punctuation was normalized
C25_Witness ==
  /\ ev.op = "normalizeText"
  /\ ev.text = <<"C,", "_", "A">>
  /\ ev.result = <<"c", "a">>

-----------------------------------------------------------------------------
(* Properties of the registry (RegSpec) *)

\* C26: no two recipients have the same code once lower-cased and trimmed
C26_UniqueSigla ==
  \A i, j \in DOMAIN recipients :
     i # j => trim(toLowerCase(Spell[recipients[i].sigla]))
                # trim(toLowerCase(Spell[recipients[j].sigla]))

-----------------------------------------------------------------------------
(* What starts a reconciliation pass: under Spec and RescanSpec *)

\* C27: saving a new or an edited registry entry while an inventory is
\* published starts a pass: no recipient is left pending with files for all
\* its services in the inventory and no pass under way
C27_RegistryChangeStartsPass ==
  [][ (ev'.op \in {"addClient", "editClient"} /\ files # <<>>) =>
        \A i \in DOMAIN recipients' :
           (recipients'[i].status = "pending" /\ FullySatisfied(recipients'[i], files))
             => passes' # passes ]_vars

\* C28: a scan that completes while a recipient is pending with its
\* generated content kept, as a reset leaves it, and the files for all its
\* services are in the folder, brings a pass that takes it out of pending
C28_ScanAfterResetReconciles ==
  [][ (ev'.op = "scan" /\ ~ev'.threw) =>
        \A i \in DOMAIN recipients :
           ( /\ recipients[i].status = "pending"
             /\ ~IsEmpty(recipients[i].emailBody)
             /\ FullySatisfied(recipients[i], files') )
             => \/ i \in DOMAIN recipients' /\ recipients'[i].status \in {"file_found", "ready"}
                \/ passes' # passes ]_vars

-----------------------------------------------------------------------------
(* Switching the monitored folder: under FolderSpec *)

\* C29: the scan started by a selection, from the picker or from the session
\* history, that changed the monitored folder does not return early on a
\* fingerprint that the scan of another folder left in the cache
C29_FirstScanIgnoresOtherFolder ==
  [][ ( /\ ev'.op = "scan" /\ ev'.early
        /\ ev'.switched
        /\ ev'.handle = dirHandle )
      => signatureFrom \in {NoHandle, ev'.handle} ]_vars

-----------------------------------------------------------------------------
(* Publication of a pass: under StepSpec *)

\* C30: a pass that stops at an await leaves the recipient list as it was,
\* whatever it has worked out so far; the pass that ends either leaves the
\* list as it was or replaces it by its whole local copy, every recipient at once
C30_PassPublishedAtOnce ==
  [][ ev'.op = "passStep" =>
        IF ev'.finished
        THEN \/ recipients' = recipients
             \/ /\ ev'.hasChanges
                /\ recipients' = ev'.local
        ELSE recipients' = recipients ]_vars

\* a pass over two recipients is suspended at the second one with the
\* first one's new status in its local copy only
C30_Witness ==
  /\ ev.op = "passStep" /\ ~ev.finished
  /\ ev.at = 2
  /\ ev.hasChanges
  /\ ev.local[1].status = "file_found"
  /\ recipients[1].status = "pending"
  /\ Len(recipients) = 2

-----------------------------------------------------------------------------
(* Publication of a content batch: under BatchSpec *)

\* the recipient of the list rs with the given id
WithId(rs, id) == rs[findIndex(rs, id)]

\* a target of the batch is published ready while another one is still
\* published file_found
PartlyReady(b) ==
  \E x, y \in Targets(b.recipients) :
     /\ findIndex(recipients, x) # 0 /\ findIndex(recipients, y) # 0
     /\ WithId(recipients, x).status = "ready"
     /\ WithId(recipients, y).status = "file_found"

\* while calls of the batch return or reject the published list stays as
\* it was, and the update that follows the last call publishes every
\* target of the batch ready with its content
OneUpdate ==
  [][ /\ ev'.op \in {"call", "reject"} => recipients' = recipients
      /\ ev'.op = "resolve" =>
           \A id \in ev'.targets :
              /\ WithId(recipients', id).status = "ready"
              /\ ~IsEmpty(WithId(recipients', id).emailBody) ]_vars

-----------------------------------------------------------------------------
(* Passes, batches and registry edits in flight together: under RaceSpec *)

\* status, matched files and missing services are the same in r and q
SameFindings(r, q) ==
  /\ r.status = q.status
  /\ r.matchedFiles = q.matchedFiles
  /\ r.missingServices = q.missingServices

\* what the pass that ends in this step has worked out for the list it read
Computed == processMatches(passes[ev'.k].recipients, passes[ev'.k].files, ev'.failing, now)

\* C32: a pass that ends leaves as it was every recipient for which it
\* worked out the status, matched files and missing services it had read,
\* and publishes nothing when that is so for every recipient it read
C32_PassKeepsUnchanged ==
  [][ (ev'.op = "pass" /\ ev'.k \in DOMAIN passes) =>
        /\ \A j \in DOMAIN passes[ev'.k].recipients :
              ( /\ SameFindings(Computed.updatedRecipients[j], passes[ev'.k].recipients[j])
                /\ findIndex(recipients, passes[ev'.k].recipients[j].id) # 0 )
              => /\ findIndex(recipients', passes[ev'.k].recipients[j].id) # 0
                 /\ WithId(recipients', passes[ev'.k].recipients[j].id)
                      = WithId(recipients, passes[ev'.k].recipients[j].id)
        /\ (\A j \in DOMAIN passes[ev'.k].recipients :
               SameFindings(Computed.updatedRecipients[j], passes[ev'.k].recipients[j]))
           => recipients' = recipients ]_vars

-----------------------------------------------------------------------------
(* The rule family in the pass and in findKeywordMatch: under CallSpec *)

\* C33: the pass handles a recipient as the contract variant exactly when
\* findKeywordMatch applies the contract rule to it, and a file recorded for
\* the pseudo-service holds the three fixed tokens
C33_SameRuleFamily ==
  ev.op = "reconcile" =>
    /\ isCaixaRecipient(ev.r) <=> IsVariant(ev.r.name, ev.r.sigla)
    /\ \A i \in DOMAIN ev.result.matchedFiles :
          ev.result.matchedFiles[i].service = PseudoServiceFound
            => HasContractTokens(ev.result.matchedFiles[i].fileName)

-----------------------------------------------------------------------------
(* The inventory after a scan: under FolderSpec *)

\* C34: when a scan ends without an error, the published inventory holds
\* exactly the file names the scan enumerated in its folder
C34_InventoryIsListing ==
  [][ev'.op = "scan" /\ ~ev'.threw => Range(files') = Range(ev'.listing)]_vars

\* C36: once no scan is in flight, the inventory and the fingerprint cache
\* have not been written by a scan of a folder other than the selected one
C36_CacheOfSelectedFolder ==
  scans = <<>> => signatureFrom \in {dirHandle, NoHandle}

-----------------------------------------------------------------------------
(* The registry and the runtime list: under RaceSpec *)

\* the recipient carries the id and the identity fields of the registry entry
MirrorsEntry(r, client) ==
  /\ r.id = client.id
  /\ r.sigla = client.sigla
  /\ r.name = client.name
  /\ r.email = client.email
  /\ r.services = client.services

\* C35: once no pass and no content batch is in flight, the runtime list has
\* exactly the ids and the identity fields of the registry, entry by entry
C35_RegistryEditsSurvive ==
  passes = <<>> /\ batches = <<>> =>
    /\ Len(recipients) = Len(clients)
    /\ \A i \in DOMAIN clients : MirrorsEntry(recipients[i], clients[i])

-----------------------------------------------------------------------------
(* The rebuild of the runtime list: under EditSpec *)

\* the recipient has the status, matched files, missing services and
\* generated content of old
KeepsState(r, old) ==
  /\ r.status = old.status
  /\ r.matchedFiles = old.matchedFiles
  /\ r.missingServices = old.missingServices
  /\ r.emailSubject = old.emailSubject
  /\ r.emailBody = old.emailBody
  /\ r.emailBodyHtml = old.emailBodyHtml

\* the recipient is pending with nothing matched and nothing missing
StartsPending(r) ==
  /\ r.status = "pending"
  /\ r.matchedFiles = <<>>
  /\ r.missingServices = <<>>

\* C37: a change of the registry rebuilds the runtime list as the registry
\* entries in registry order; an entry whose id the list held keeps its
\* status, matched files, missing services and content, and a new entry
\* starts pending with empty matched and missing lists
C37_RebuildFromRegistry ==
  [][ ev'.op \in {"addClient", "editClient", "deleteClient"} =>
        /\ Len(recipients') = Len(clients')
        /\ \A i \in DOMAIN clients' :
              /\ MirrorsEntry(recipients'[i], clients'[i])
              /\ IF findIndex(recipients, clients'[i].id) # 0
                 THEN KeepsState(recipients'[i], WithId(recipients, clients'[i].id))
                 ELSE StartsPending(recipients'[i]) ]_vars

\* an entry has just been added behind one that is ready with its content
C37_Witness ==
  /\ ev.op = "addClient"
  /\ Len(recipients) = 2
  /\ recipients[1].status = "ready" /\ ~IsEmpty(recipients[1].emailBody)
  /\ recipients[2].status = "pending" /\ recipients[2].id = nextId

-----------------------------------------------------------------------------
(* The loop between the runtime list and the content effect: under LiveSpec *)

\* the list a batch publishes holds no target, and the effect started by
\* the publication starts no batch
EndsLoop ==
  [][ (ev'.op = "batch" /\ ev'.failed = {}) =>
        /\ Targets(recipients') = {}
        /\ batches' = Tail(batches) ]_vars

\* C38: the publication of a content batch starts no further batch, and
\* over one inventory the runtime list is updated finitely often: from some
\* point on no batch is in flight and the list does not change
C38_LoopQuiesces ==
  /\ EndsLoop
  /\ <>[](batches = <<>>)
  /\ <>[][recipients' = recipients]_vars

\* a batch has made a recipient ready and nothing is in flight after it
C38_Witness ==
  /\ ev.op = "batch" /\ ev.failed = {}
  /\ batches = <<>>
  /\ \E i \in DOMAIN recipients :
       recipients[i].status = "ready" /\ ~IsEmpty(recipients[i].emailBody)

-----------------------------------------------------------------------------
(* The bulk send: under BulkSpec *)

\* the positions of the ready recipients
ReadyAt(rs) == {i \in DOMAIN rs : rs[i].status = "ready"}

\* C39: a confirmed bulk send marks every ready recipient as sent and leaves
\* every other recipient as it was, and the log grows by one entry for each
\* recipient that was ready; with no ready recipient, or when the
\* confirmation is declined, recipients and log stay as they were
C39_BulkSendsReady ==
  [][ ev'.op = "sendPending" =>
        IF ev'.confirmed /\ ReadyAt(recipients) # {}
        THEN /\ DOMAIN recipients' = DOMAIN recipients
             /\ \A i \in DOMAIN recipients :
                   recipients'[i] = IF i \in ReadyAt(recipients)
                                    THEN [recipients[i] EXCEPT !.status = "sent"]
                                    ELSE recipients[i]
             /\ Len(sentHistory') = Len(sentHistory) + Cardinality(ReadyAt(recipients))
             /\ SubSeq(sentHistory', Cardinality(ReadyAt(recipients)) + 1,
                       Len(sentHistory')) = sentHistory
             /\ \A i \in ReadyAt(recipients) :
                   \E k \in 1..Cardinality(ReadyAt(recipients)) :
                      sentHistory'[k].recipientSigla = recipients[i].sigla
        ELSE /\ recipients' = recipients
             /\ sentHistory' = sentHistory
             /\ batches' = batches ]_vars

\* a confirmed bulk send has sent two recipients and logged both
C39_Witness ==
  /\ ev.op = "sendPending" /\ ev.confirmed /\ ev.asked
  /\ Len(recipients) = 2
  /\ \A i \in DOMAIN recipients : recipients[i].status = "sent"
  /\ Len(sentHistory) = 2
  /\ sentHistory[1].recipientSigla # sentHistory[2].recipientSigla

====
